---- MODULE Spec2Model ----
(***************************************************************************)
(* A model of the request pipeline of the Project API: the Express        *)
(* middleware chain (authenticate, requireAdmin), the controllers with    *)
(* their zod schemas, the auth and projects services, the statements the  *)
(* services send to the store, and the global error handler.              *)
(*                                                                         *)
(* A request is handled in steps.  Node runs a handler without            *)
(* interruption up to the completion of an awaited store statement, so a  *)
(* step is: the synchronous code before a statement, plus the statement   *)
(* itself, executed atomically by the store.  A request that awaits a     *)
(* second statement stays in pend[s] between its steps.                   *)
(***************************************************************************)
EXTENDS Integers, Sequences, FiniteSets, TLC

VARIABLES
    users,          \* table "users": a set of rows
    projects,       \* table "projects": a function from the ids in use to rows
    nextUserId,     \* the next fresh user id
    nextProjectId,  \* the next fresh project id; also the creation clock
    rateLimitStore, \* rateLimitStore: client key -> [count, resetTime]
    now,            \* Date.now(), in ticks of one rate-limit window
    pend,           \* per request slot: the continuation awaiting a statement
    out             \* the exchange completed by the last step, if any

vars == <<users, projects, nextUserId, nextProjectId, rateLimitStore, now,
          pend, out>>

-----------------------------------------------------------------------------
(* Bounds of the model *)

\* Number of project ids the store hands out.
MaxProjects == 2

\* Last tick of the clock.
MaxNow == 2

\* Requests a client sends to the rate-limited routes within one window.
MaxCount == 21

\* Request slots: 1 is used by the sequential specifications, 1 and 2 by
\* the concurrent ones.
Slots == {1, 2}

-----------------------------------------------------------------------------
(* Values *)

Absent == "<absent>"    \* a key missing from a JSON object (undefined)
Null   == "<null>"      \* SQL NULL
Unread == "<unread>"    \* a part of the request the code did not read

NoUser == [userId |-> 0, role |-> "none"]
NoData == [none |-> TRUE]
NoErr  == [name |-> "none"]
NoRow  == [id |-> 0, title |-> Null, description |-> Null, status |-> Null,
           ownerId |-> 0, createdAt |-> 0]
Idle   == [op |-> "idle"]
NoOut  == [kind |-> "none"]

UnreadBody  == [title |-> Unread, description |-> Unread, status |-> Unread,
                ownerId |-> Unread]

-----------------------------------------------------------------------------
(* utils/response.ts *)

Errors == [VALIDATION_ERROR |-> 400, UNAUTHORIZED |-> 401, FORBIDDEN |-> 403,
           NOT_FOUND |-> 404, CONFLICT |-> 409, INTERNAL_ERROR |-> 500]

sendSuccess(data, statusCode) ==
    [success |-> TRUE, status |-> statusCode, code |-> "", message |-> "",
     details |-> <<>>, data |-> data]

NoResp == [success |-> FALSE, status |-> 0, code |-> "", message |-> "",
           details |-> <<>>, data |-> NoData]

sendError(code, message, statusCode, details) ==
    [success |-> FALSE, status |-> statusCode, code |-> code,
     message |-> message, details |-> details, data |-> NoData]

-----------------------------------------------------------------------------
(* middleware/errorHandler.ts *)

AppError(code, message, statusCode) ==
    [name |-> "AppError", code |-> code, message |-> message,
     statusCode |-> statusCode, issues |-> <<>>, target |-> Absent]

ZodError(issues) ==
    [name |-> "ZodError", code |-> "", message |-> "zod", statusCode |-> 0,
     issues |-> issues, target |-> Absent]

PrismaError(code, target) ==
    [name |-> "PrismaClientKnownRequestError", code |-> code,
     message |-> "prisma", statusCode |-> 0, issues |-> <<>>,
     target |-> target]

PlainError(message) ==
    [name |-> "Error", code |-> "", message |-> message, statusCode |-> 0,
     issues |-> <<>>, target |-> Absent]

\* errorHandler without the branch for the errors of Prisma
errorHandlerNoPrisma(err) ==
    IF err.name = "ZodError"
    THEN sendError("VALIDATION_ERROR", "Validation failed",
                   Errors.VALIDATION_ERROR, err.issues)
    ELSE IF err.name = "AppError"
    THEN sendError(err.code, err.message, err.statusCode, <<>>)
    ELSE sendError("INTERNAL_ERROR", "An unexpected error occurred.",
                   Errors.INTERNAL_ERROR, <<>>)

\* errorHandler sending the message of an error it does not know
errorHandlerLeaksMessage(err) ==
    IF err.name = "ZodError"
    THEN sendError("VALIDATION_ERROR", "Validation failed",
                   Errors.VALIDATION_ERROR, err.issues)
    ELSE IF err.name = "AppError"
    THEN sendError(err.code, err.message, err.statusCode, <<>>)
    ELSE IF err.name = "PrismaClientKnownRequestError" /\ err.code = "P2002"
    THEN sendError("CONFLICT",
                   "A record with this "
                       \o (IF err.target = Absent THEN "field" ELSE err.target)
                       \o " already exists.",
                   Errors.CONFLICT, <<>>)
    ELSE IF err.name = "PrismaClientKnownRequestError" /\ err.code = "P2025"
    THEN sendError("NOT_FOUND", "Record not found.", Errors.NOT_FOUND, <<>>)
    ELSE sendError("INTERNAL_ERROR", err.message, Errors.INTERNAL_ERROR, <<>>)

errorHandler(err) ==
    IF err.name = "ZodError"
    THEN sendError("VALIDATION_ERROR", "Validation failed",
                   Errors.VALIDATION_ERROR, err.issues)
    ELSE IF err.name = "AppError"
    THEN sendError(err.code, err.message, err.statusCode, <<>>)
    ELSE IF err.name = "PrismaClientKnownRequestError" /\ err.code = "P2002"
    THEN sendError("CONFLICT",
                   "A record with this "
                       \o (IF err.target = Absent THEN "field" ELSE err.target)
                       \o " already exists.",
                   Errors.CONFLICT, <<>>)
    ELSE IF err.name = "PrismaClientKnownRequestError" /\ err.code = "P2025"
    THEN sendError("NOT_FOUND", "Record not found.", Errors.NOT_FOUND, <<>>)
    ELSE sendError("INTERNAL_ERROR", "An unexpected error occurred.",
                   Errors.INTERNAL_ERROR, <<>>)

-----------------------------------------------------------------------------
(* Token codec: adapters/jwtTokenSigner.ts, jwt.verify in middleware/auth *)

\* A token as it is presented with a request: the claim it carries, the key
\* that signed it, and whether its expiry has passed when it is verified.
\* The empty string is EmptyTok.
Secret == "env.jwtSecret"

Token(payload, sig, expired) ==
    [userId |-> payload.userId, role |-> payload.role, sig |-> sig,
     expired |-> expired]

EmptyTok == Token(NoUser, "none", FALSE)

sign(payload) == Token(payload, Secret, FALSE)

jwtVerify(token) ==
    IF token.sig = Secret /\ ~token.expired
    THEN [ok |-> TRUE,
          payload |-> [userId |-> token.userId, role |-> token.role]]
    ELSE [ok |-> FALSE, payload |-> NoUser]

\* The Authorization header: scheme is the first seven characters (or
\* "none" when the header is absent, "" when the header is a bare token).
Header(scheme, token) == [scheme |-> scheme, token |-> token]
NoHeader == Header("none", EmptyTok)

-----------------------------------------------------------------------------
(* middleware/auth.ts *)

\* authenticate without the test of the header's prefix
authenticateAnyPrefix(hdr) ==
    LET v == jwtVerify(hdr.token) IN
    IF v.ok
    THEN [next |-> TRUE, user |-> v.payload, resp |-> NoResp]
    ELSE [next |-> FALSE, user |-> NoUser,
          resp |-> sendError("UNAUTHORIZED", "Invalid or expired token.",
                             Errors.UNAUTHORIZED, <<>>)]

authenticate(hdr) ==
    IF hdr.scheme # "Bearer "
    THEN [next |-> FALSE, user |-> NoUser,
          resp |-> sendError("UNAUTHORIZED",
                     "Authentication required. Please provide a valid Bearer token.",
                     Errors.UNAUTHORIZED, <<>>)]
    ELSE LET v == jwtVerify(hdr.token) IN
         IF v.ok
         THEN [next |-> TRUE, user |-> v.payload, resp |-> NoResp]
         ELSE [next |-> FALSE, user |-> NoUser,
               resp |-> sendError("UNAUTHORIZED", "Invalid or expired token.",
                                  Errors.UNAUTHORIZED, <<>>)]

\* requireAdmin without the test of the role
requireAdminAnyRole(user) ==
    IF user = NoUser
    THEN [next |-> FALSE,
          resp |-> sendError("UNAUTHORIZED", "Authentication required.",
                             Errors.UNAUTHORIZED, <<>>)]
    ELSE [next |-> TRUE, resp |-> NoResp]

requireAdmin(user) ==
    IF user = NoUser
    THEN [next |-> FALSE,
          resp |-> sendError("UNAUTHORIZED", "Authentication required.",
                             Errors.UNAUTHORIZED, <<>>)]
    ELSE IF user.role # "admin"
    THEN [next |-> FALSE,
          resp |-> sendError("FORBIDDEN", "Admin access required.",
                             Errors.FORBIDDEN, <<>>)]
    ELSE [next |-> TRUE, resp |-> NoResp]

-----------------------------------------------------------------------------
(* middleware/rateLimit.ts *)

\* authRateLimit = rateLimit(15 * 60 * 1000, 20); the clock ticks once per
\* window length
authWindowMs    == 1
authMaxRequests == 20

\* The headers the limiter sets on every response: X-RateLimit-Limit and
\* X-RateLimit-Remaining = Math.max(0, maxRequests - entry.count)
RateLimitHeaders(maxRequests, entry) ==
    [limit |-> maxRequests,
     remaining |-> IF maxRequests - entry.count > 0
                   THEN maxRequests - entry.count
                   ELSE 0]

NoHeaders == [limit |-> Absent, remaining |-> Absent]

\* The limiter counting only the requests it passes on
rateLimitCountsPassed(store, clientKey, t, windowMs, maxRequests) ==
    LET fresh == clientKey \notin DOMAIN store \/ t > store[clientKey].resetTime
        full  == ~fresh /\ store[clientKey].count >= maxRequests
        entry == IF fresh
                 THEN [count |-> 1, resetTime |-> t + windowMs]
                 ELSE IF full
                 THEN store[clientKey]
                 ELSE [store[clientKey] EXCEPT !.count = @ + 1]
    IN [next  |-> ~full,
        store |-> [k \in DOMAIN store \cup {clientKey} |->
                      IF k = clientKey THEN entry ELSE store[k]],
        headers |-> RateLimitHeaders(maxRequests, entry),
        resp  |-> IF full
                  THEN sendError("RATE_LIMIT_EXCEEDED",
                                 "Too many requests. Please try again later.",
                                 429, <<>>)
                  ELSE NoResp]

\* The limiter refusing from the request that reaches maxRequests on
rateLimitAtLeast(store, clientKey, t, windowMs, maxRequests) ==
    LET fresh == clientKey \notin DOMAIN store \/ t > store[clientKey].resetTime
        entry == IF fresh
                 THEN [count |-> 1, resetTime |-> t + windowMs]
                 ELSE [store[clientKey] EXCEPT !.count = @ + 1]
    IN [next  |-> entry.count < maxRequests,
        store |-> [k \in DOMAIN store \cup {clientKey} |->
                      IF k = clientKey THEN entry ELSE store[k]],
        headers |-> RateLimitHeaders(maxRequests, entry),
        resp  |-> IF entry.count >= maxRequests
                  THEN sendError("RATE_LIMIT_EXCEEDED",
                                 "Too many requests. Please try again later.",
                                 429, <<>>)
                  ELSE NoResp]

\* The limiter returned by rateLimit(windowMs, maxRequests), for a request
\* of clientKey at time t
rateLimit(store, clientKey, t, windowMs, maxRequests) ==
    LET fresh == clientKey \notin DOMAIN store \/ t > store[clientKey].resetTime
        entry == IF fresh
                 THEN [count |-> 1, resetTime |-> t + windowMs]
                 ELSE [store[clientKey] EXCEPT !.count = @ + 1]
    IN [next  |-> entry.count <= maxRequests,
        store |-> [k \in DOMAIN store \cup {clientKey} |->
                      IF k = clientKey THEN entry ELSE store[k]],
        headers |-> RateLimitHeaders(maxRequests, entry),
        resp  |-> IF entry.count > maxRequests
                  THEN sendError("RATE_LIMIT_EXCEEDED",
                                 "Too many requests. Please try again later.",
                                 429, <<>>)
                  ELSE NoResp]

\* The callback deleting the entries whose reset time has come
sweepAtReset(store, t) ==
    [k \in {c \in DOMAIN store : ~(t >= store[c].resetTime)} |-> store[k]]

\* The setInterval callback: expired entries are deleted
sweep(store, t) ==
    [k \in {c \in DOMAIN store : ~(t > store[c].resetTime)} |-> store[k]]

-----------------------------------------------------------------------------
(* controllers/projects.controller.ts: the zod schemas *)

statusEnum == {"todo", "doing", "done"}

TitleMinLen == 3

Issue(field, message) == [field |-> field, message |-> message]

\* z.string().min(3, ...), optional or not
titleIssues(title, optional) ==
    IF title = Absent
    THEN IF optional THEN <<>> ELSE <<Issue("title", "Required")>>
    ELSE IF title = Null
    THEN <<Issue("title", "Expected string, received null")>>
    ELSE IF Len(title) < TitleMinLen
    THEN <<Issue("title", "Title must be at least 3 characters")>>
    ELSE <<>>

\* z.string().optional()
descriptionIssues(description) ==
    IF description = Null
    THEN <<Issue("description", "Expected string, received null")>>
    ELSE <<>>

\* statusEnum.optional()
statusIssues(status) ==
    IF status = Absent \/ status \in statusEnum
    THEN <<>>
    ELSE <<Issue("status", "Invalid enum value")>>

\* z.object strips the keys the schema does not name
Parsed(body, issues) ==
    [ok |-> issues = <<>>, issues |-> issues,
     value |-> [title |-> body.title, description |-> body.description,
                status |-> body.status]]

createProjectSchema(body) ==
    Parsed(body, titleIssues(body.title, FALSE)
                   \o descriptionIssues(body.description)
                   \o statusIssues(body.status))

updateProjectSchema(body) ==
    Parsed(body, titleIssues(body.title, TRUE)
                   \o descriptionIssues(body.description)
                   \o statusIssues(body.status))

\* A query parameter: given or not, and its text as a sequence of
\* characters; a parameter given more than once reaches the schema as an
\* array
Param(text) == [given |-> TRUE, many |-> FALSE, text |-> text]
NoParam     == [given |-> FALSE, many |-> FALSE, text |-> <<>>]
ManyParam   == [given |-> TRUE, many |-> TRUE, text |-> <<>>]
UnreadQuery == [limit |-> [given |-> FALSE, many |-> FALSE, text |-> <<Unread>>],
                offset |-> [given |-> FALSE, many |-> FALSE, text |-> <<Unread>>]]

\* A JavaScript number: an integer or NaN
Num(n) == [nan |-> FALSE, n |-> n]
NaN    == [nan |-> TRUE, n |-> 0]

Digits == <<"0", "1", "2", "3", "4", "5", "6", "7", "8", "9">>
IsDigit(c) == \E i \in DOMAIN Digits : Digits[i] = c
DigitValue(c) == (CHOOSE i \in DOMAIN Digits : Digits[i] = c) - 1

RECURSIVE SkipWhiteSpace(_, _)
SkipWhiteSpace(text, i) ==
    IF i <= Len(text) /\ text[i] = " " THEN SkipWhiteSpace(text, i + 1) ELSE i

RECURSIVE DigitRun(_, _, _)
DigitRun(text, i, acc) ==
    IF i <= Len(text) /\ IsDigit(text[i])
    THEN DigitRun(text, i + 1, 10 * acc + DigitValue(text[i]))
    ELSE acc

\* parseInt(text, 10): white space skipped, an optional sign, then the
\* longest run of decimal digits; NaN when there is no digit
parseInt(text) ==
    LET i == SkipWhiteSpace(text, 1)
        signed == i <= Len(text) /\ text[i] \in {"+", "-"}
        j == IF signed THEN i + 1 ELSE i
    IN IF j <= Len(text) /\ IsDigit(text[j])
       THEN Num((IF signed /\ text[i] = "-" THEN -1 ELSE 1)
                    * DigitRun(text, j, 0))
       ELSE NaN

\* Math.max and Math.min: NaN when an argument is NaN
mathMax(a, b) ==
    IF a.nan \/ b.nan THEN NaN ELSE IF a.n >= b.n THEN a ELSE b
mathMin(a, b) ==
    IF a.nan \/ b.nan THEN NaN ELSE IF a.n <= b.n THEN a ELSE b

\* val || dflt for a string val: undefined and the empty string are falsy
OrDefault(val, dflt) ==
    IF ~val.given \/ val.text = <<>> THEN dflt ELSE val.text

\* z.string().optional() of a query parameter
paramIssues(field, val) ==
    IF val.many THEN <<Issue(field, "Expected string, received array")>>
    ELSE <<>>

\* paginationSchema: the issues of z.string().optional() on both keys
paginationIssues(query) ==
    paramIssues("limit", query.limit) \o paramIssues("offset", query.offset)

\* paginationSchema: the transforms of both keys
paginationSchema(query) ==
    [limit  |-> mathMin(mathMax(Num(1),
                                parseInt(OrDefault(query.limit, <<"1", "0">>))),
                        Num(50)),
     offset |-> mathMax(Num(0), parseInt(OrDefault(query.offset, <<"0">>)))]

-----------------------------------------------------------------------------
(* The statements of the store (Prisma on the "projects" table) *)

Throw(err)    == [threw |-> TRUE, err |-> err, value |-> NoData]
Return(value) == [threw |-> FALSE, err |-> NoErr, value |-> value]

\* prisma.project.findUnique({ where: { id } })
projectFindUnique(P, id) == IF id \in DOMAIN P THEN P[id] ELSE NoRow

\* prisma.project.create({ data }): a fresh id, createdAt from the clock,
\* an undefined description stored as NULL, the owner a row of "users"
projectCreate(P, U, data, id) ==
    IF \E u \in U : u.id = data.ownerId
    THEN LET row == [id |-> id, title |-> data.title,
                     description |-> IF data.description = Absent
                                     THEN Null ELSE data.description,
                     status |-> data.status, ownerId |-> data.ownerId,
                     createdAt |-> id]
         IN [threw |-> FALSE, err |-> NoErr, row |-> row,
             table |-> [i \in DOMAIN P \cup {id} |->
                            IF i = id THEN row ELSE P[i]]]
    ELSE [threw |-> TRUE, err |-> PrismaError("P2003", "ownerId"),
          row |-> NoRow, table |-> P]

\* update as a replacement of the whole record: a key of data that is
\* undefined is stored as NULL
projectUpdateOverwrite(P, id, data) ==
    IF id \in DOMAIN P
    THEN LET row == [P[id] EXCEPT
                       !.title = IF data.title = Absent THEN Null ELSE data.title,
                       !.description = IF data.description = Absent
                                       THEN Null ELSE data.description,
                       !.status = IF data.status = Absent THEN Null ELSE data.status]
         IN [threw |-> FALSE, err |-> NoErr, row |-> row,
             table |-> [P EXCEPT ![id] = row]]
    ELSE [threw |-> TRUE, err |-> PrismaError("P2025", Absent),
          row |-> NoRow, table |-> P]

\* prisma.project.update({ where: { id }, data }): the keys of data that
\* are undefined are left alone; P2025 when no row has the id
projectUpdate(P, id, data) ==
    IF id \in DOMAIN P
    THEN LET row == [P[id] EXCEPT
                       !.title = IF data.title = Absent THEN @ ELSE data.title,
                       !.description = IF data.description = Absent
                                       THEN @ ELSE data.description,
                       !.status = IF data.status = Absent THEN @ ELSE data.status,
                       !.ownerId = IF "ownerId" \in DOMAIN data
                                   THEN data.ownerId ELSE @]
         IN [threw |-> FALSE, err |-> NoErr, row |-> row,
             table |-> [P EXCEPT ![id] = row]]
    ELSE [threw |-> TRUE, err |-> PrismaError("P2025", Absent),
          row |-> NoRow, table |-> P]

\* delete that takes a missing row for a deleted one
projectDeleteIfExists(P, id) ==
    [threw |-> FALSE, err |-> NoErr,
     table |-> [i \in DOMAIN P \ {id} |-> P[i]]]

\* prisma.project.delete({ where: { id } }): P2025 when no row has the id
projectDelete(P, id) ==
    IF id \in DOMAIN P
    THEN [threw |-> FALSE, err |-> NoErr,
          table |-> [i \in DOMAIN P \ {id} |-> P[i]]]
    ELSE [threw |-> TRUE, err |-> PrismaError("P2025", Absent), table |-> P]

\* Rows ordered by createdAt, newest first
RECURSIVE OrderByCreatedAtDesc(_)
OrderByCreatedAtDesc(rows) ==
    IF rows = {}
    THEN <<>>
    ELSE LET newest == CHOOSE r \in rows :
                           \A q \in rows : q.createdAt <= r.createdAt
         IN <<newest>> \o OrderByCreatedAtDesc(rows \ {newest})

\* take without skip
WindowTakeOnly(rows, skip, take) ==
    SubSeq(rows, 1, IF take < Len(rows) THEN take ELSE Len(rows))

\* skip and take of a result list
Window(rows, skip, take) ==
    SubSeq(rows, skip + 1, IF skip + take < Len(rows) THEN skip + take
                           ELSE Len(rows))

Rows(P) == {P[i] : i \in DOMAIN P}

\* The client rejects a skip or take that is not an integer before any
\* query is sent
PrismaValidationError ==
    [name |-> "PrismaClientValidationError", code |-> "",
     message |-> "prisma", statusCode |-> 0, issues |-> <<>>,
     target |-> Absent]

\* prisma.project.findMany({ where: { ownerId }, orderBy: { createdAt:
\* 'desc' }, skip, take })
projectFindManyByOwner(P, ownerId, skip, take) ==
    IF skip.nan \/ take.nan
    THEN Throw(PrismaValidationError)
    ELSE Return(Window(OrderByCreatedAtDesc(
                           {r \in Rows(P) : r.ownerId = ownerId}),
                       skip.n, take.n))

\* prisma.project.count({ where: { ownerId } })
projectCountByOwner(P, ownerId) ==
    Cardinality({r \in Rows(P) : r.ownerId = ownerId})

\* include: { owner: { select: { id, name, email } } }
WithOwner(U, r) ==
    LET o == CHOOSE u \in U : u.id = r.ownerId
    IN [id |-> r.id, title |-> r.title, description |-> r.description,
        status |-> r.status, ownerId |-> r.ownerId, createdAt |-> r.createdAt,
        owner |-> [id |-> o.id, name |-> o.name, email |-> o.email]]

\* prisma.project.findMany({ orderBy, skip, take, include: { owner } })
projectFindManyWithOwner(P, U, skip, take) ==
    IF skip.nan \/ take.nan
    THEN Throw(PrismaValidationError)
    ELSE LET page == Window(OrderByCreatedAtDesc(Rows(P)), skip.n, take.n)
         IN Return([k \in 1..Len(page) |-> WithOwner(U, page[k])])

\* prisma.project.count()
projectCount(P) == Cardinality(DOMAIN P)

-----------------------------------------------------------------------------
(* services/projects.service.ts *)

\* createProject without the default of status
createProjectNoDefault(ownerId, input) ==
    [title |-> input.title, description |-> input.description,
     status |-> input.status, ownerId |-> ownerId]

\* createProject: the data handed to prisma.project.create
createProject(ownerId, input) ==
    [title |-> input.title, description |-> input.description,
     status |-> IF input.status = Absent THEN "todo" ELSE input.status,
     ownerId |-> ownerId]

\* getProjectById, given the row findUnique returned
\* getProjectById with the two checks in the other order
getProjectByIdOwnershipFirst(project, ownerId) ==
    IF project.ownerId # ownerId
    THEN Throw(AppError("FORBIDDEN",
                        "You do not have permission to access this project.",
                        Errors.FORBIDDEN))
    ELSE IF project = NoRow
    THEN Throw(AppError("NOT_FOUND", "Project not found.", Errors.NOT_FOUND))
    ELSE Return(project)

getProjectById(project, ownerId) ==
    IF project = NoRow
    THEN Throw(AppError("NOT_FOUND", "Project not found.", Errors.NOT_FOUND))
    ELSE IF project.ownerId # ownerId
    THEN Throw(AppError("FORBIDDEN",
                        "You do not have permission to access this project.",
                        Errors.FORBIDDEN))
    ELSE Return(project)

\* updateProject without the ownership check, making the requester the owner
updateProjectTakesOver(project, ownerId, input) ==
    IF project = NoRow
    THEN Throw(AppError("NOT_FOUND", "Project not found.", Errors.NOT_FOUND))
    ELSE Return([title |-> input.title, description |-> input.description,
                 status |-> input.status, ownerId |-> ownerId])

\* updateProject writing the whole row back: the fields the body omits are
\* taken from the row the lookup returned
updateProjectWholeRow(project, ownerId, input) ==
    IF project = NoRow
    THEN Throw(AppError("NOT_FOUND", "Project not found.", Errors.NOT_FOUND))
    ELSE IF project.ownerId # ownerId
    THEN Throw(AppError("FORBIDDEN",
                        "You do not have permission to modify this project.",
                        Errors.FORBIDDEN))
    ELSE Return([title |-> IF input.title = Absent
                           THEN project.title ELSE input.title,
                 description |-> IF input.description = Absent
                                 THEN project.description
                                 ELSE input.description,
                 status |-> IF input.status = Absent
                            THEN project.status ELSE input.status])

\* updateProject refusing an update that changes nothing
updateProjectRejectsNoChange(project, ownerId, input) ==
    IF project = NoRow
    THEN Throw(AppError("NOT_FOUND", "Project not found.", Errors.NOT_FOUND))
    ELSE IF project.ownerId # ownerId
    THEN Throw(AppError("FORBIDDEN",
                        "You do not have permission to modify this project.",
                        Errors.FORBIDDEN))
    ELSE IF /\ input.title \in {Absent, project.title}
            /\ input.description \in {Absent, project.description}
            /\ input.status \in {Absent, project.status}
    THEN Throw(AppError("CONFLICT", "Nothing to update.", Errors.CONFLICT))
    ELSE Return([title |-> input.title, description |-> input.description,
                 status |-> input.status])

\* updateProject without its ownership check
updateProjectAnyOwner(project, ownerId, input) ==
    IF project = NoRow
    THEN Throw(AppError("NOT_FOUND", "Project not found.", Errors.NOT_FOUND))
    ELSE Return([title |-> input.title, description |-> input.description,
                 status |-> input.status])

\* updateProject up to its update statement, given the row findUnique
\* returned: the checks, then updateData built from the supplied fields
updateProject(project, ownerId, input) ==
    IF project = NoRow
    THEN Throw(AppError("NOT_FOUND", "Project not found.", Errors.NOT_FOUND))
    ELSE IF project.ownerId # ownerId
    THEN Throw(AppError("FORBIDDEN",
                        "You do not have permission to modify this project.",
                        Errors.FORBIDDEN))
    ELSE Return([title |-> input.title, description |-> input.description,
                 status |-> input.status])

\* deleteProject without the ownership check for the seeded admin
deleteProjectAdminBypass(project, ownerId) ==
    IF project = NoRow
    THEN Throw(AppError("NOT_FOUND", "Project not found.", Errors.NOT_FOUND))
    ELSE IF project.ownerId # ownerId /\ ownerId # 1
    THEN Throw(AppError("FORBIDDEN",
                        "You do not have permission to delete this project.",
                        Errors.FORBIDDEN))
    ELSE Return(NoData)

\* deleteProject with the two checks in the other order
deleteProjectOwnershipFirst(project, ownerId) ==
    IF project.ownerId # ownerId
    THEN Throw(AppError("FORBIDDEN",
                        "You do not have permission to delete this project.",
                        Errors.FORBIDDEN))
    ELSE IF project = NoRow
    THEN Throw(AppError("NOT_FOUND", "Project not found.", Errors.NOT_FOUND))
    ELSE Return(NoData)

\* deleteProject up to its delete statement
deleteProject(project, ownerId) ==
    IF project = NoRow
    THEN Throw(AppError("NOT_FOUND", "Project not found.", Errors.NOT_FOUND))
    ELSE IF project.ownerId # ownerId
    THEN Throw(AppError("FORBIDDEN",
                        "You do not have permission to delete this project.",
                        Errors.FORBIDDEN))
    ELSE Return(NoData)

\* adminDeleteProject with an ownership check, against the seeded admin
adminDeleteProjectOwnCheck(project) ==
    IF project = NoRow
    THEN Throw(AppError("NOT_FOUND", "Project not found.", Errors.NOT_FOUND))
    ELSE IF project.ownerId # 1
    THEN Throw(AppError("FORBIDDEN",
                        "You do not have permission to delete this project.",
                        Errors.FORBIDDEN))
    ELSE Return(NoData)

\* adminDeleteProject up to its delete statement
adminDeleteProject(project) ==
    IF project = NoRow
    THEN Throw(AppError("NOT_FOUND", "Project not found.", Errors.NOT_FOUND))
    ELSE Return(NoData)

-----------------------------------------------------------------------------
(* adapters/bcryptHasher.ts *)

\* A bcrypt hash is a string that is not the password and that compare
\* recognises the password by.
hash(password) == "$2b$10$" \o password
compare(password, passwordHash) == passwordHash = hash(password)

-----------------------------------------------------------------------------
(* controllers/auth.controller.ts: the zod schemas *)

\* An e-mail text, split at its "@"; a text without "@" has no domain
Email(local, domain) == [local |-> local, domain |-> domain]
NoEmail == Email(Absent, Absent)

PasswordMinLen == 8

\* z.string().min(1, 'Name is required')
nameIssues(name) ==
    IF name = Absent THEN <<Issue("name", "Required")>>
    ELSE IF Len(name) < 1 THEN <<Issue("name", "Name is required")>>
    ELSE <<>>

\* z.string().email('Invalid email format')
emailIssues(email) ==
    IF email = NoEmail THEN <<Issue("email", "Required")>>
    ELSE IF email.local = "" \/ email.domain \in {Absent, ""}
    THEN <<Issue("email", "Invalid email format")>>
    ELSE <<>>

\* z.string().min(min, message)
passwordIssues(password, min, message) ==
    IF password = Absent THEN <<Issue("password", "Required")>>
    ELSE IF Len(password) < min THEN <<Issue("password", message)>>
    ELSE <<>>

\* registerSchema stopping at its first issue
registerSchemaFirstIssue(body) ==
    LET all    == nameIssues(body.name) \o emailIssues(body.email)
                  \o passwordIssues(body.password, PasswordMinLen,
                         "Password must be at least 8 characters")
        issues == IF all = <<>> THEN <<>> ELSE <<Head(all)>>
    IN [ok |-> issues = <<>>, issues |-> issues,
        value |-> [name |-> body.name, email |-> body.email,
                   password |-> body.password]]

registerSchema(body) ==
    LET issues == nameIssues(body.name) \o emailIssues(body.email)
                  \o passwordIssues(body.password, PasswordMinLen,
                         "Password must be at least 8 characters")
    IN [ok |-> issues = <<>>, issues |-> issues,
        value |-> [name |-> body.name, email |-> body.email,
                   password |-> body.password]]

loginSchema(body) ==
    LET issues == emailIssues(body.email)
                  \o passwordIssues(body.password, 1, "Password is required")
    IN [ok |-> issues = <<>>, issues |-> issues,
        value |-> [email |-> body.email, password |-> body.password]]

-----------------------------------------------------------------------------
(* adapters/prismaUserRepo.ts on the "users" table, whose email column
   carries the unique index users_email_key *)

NoUserRow == [id |-> 0, name |-> Null, email |-> NoEmail,
              passwordHash |-> Null, role |-> "none"]

\* findByEmail: an exact match
findByEmail(U, email) ==
    IF \E u \in U : u.email = email
    THEN CHOOSE u \in U : u.email = email
    ELSE NoUserRow

findById(U, id) ==
    IF \E u \in U : u.id = id THEN CHOOSE u \in U : u.id = id ELSE NoUserRow

\* create: P2002 on the email column when a row has the email already
userCreate(U, data, id) ==
    IF \E u \in U : u.email = data.email
    THEN [threw |-> TRUE, err |-> PrismaError("P2002", "email"),
          row |-> NoUserRow, table |-> U]
    ELSE LET row == [id |-> id, name |-> data.name, email |-> data.email,
                     passwordHash |-> data.passwordHash, role |-> data.role]
         IN [threw |-> FALSE, err |-> NoErr, row |-> row,
             table |-> U \cup {row}]

-----------------------------------------------------------------------------
(* services/auth.service.ts *)

\* sanitizeUser returning the row as it is
sanitizeUserWholeRow(user) == user

sanitizeUser(user) ==
    [id |-> user.id, name |-> user.name, email |-> user.email,
     role |-> user.role]

AuthResponse(user) ==
    [user |-> sanitizeUser(user),
     token |-> sign([userId |-> user.id, role |-> user.role])]

\* register creating the user with the role "admin"
registerAsAdmin(existingUser, input) ==
    IF existingUser # NoUserRow
    THEN Throw(AppError("CONFLICT", "A user with this email already exists.",
                        Errors.CONFLICT))
    ELSE Return([name |-> input.name, email |-> input.email,
                 passwordHash |-> hash(input.password), role |-> "admin"])

\* register throwing its AppError without the status, which AppError then
\* defaults to 400
registerDefaultStatus(existingUser, input) ==
    IF existingUser # NoUserRow
    THEN Throw(AppError("CONFLICT", "A user with this email already exists.",
                        400))
    ELSE Return([name |-> input.name, email |-> input.email,
                 passwordHash |-> hash(input.password), role |-> "user"])

\* register up to its create statement, given the row findByEmail
\* returned: the check, then the data handed to userRepo.create
register(existingUser, input) ==
    IF existingUser # NoUserRow
    THEN Throw(AppError("CONFLICT", "A user with this email already exists.",
                        Errors.CONFLICT))
    ELSE Return([name |-> input.name, email |-> input.email,
                 passwordHash |-> hash(input.password), role |-> "user"])

\* login with a failure of its own for an unknown email
loginTellsWhich(user, input) ==
    IF user = NoUserRow
    THEN Throw(AppError("NOT_FOUND", "User not found.", Errors.NOT_FOUND))
    ELSE IF ~compare(input.password, user.passwordHash)
    THEN Throw(AppError("UNAUTHORIZED", "Invalid email or password.",
                        Errors.UNAUTHORIZED))
    ELSE Return(AuthResponse(user))

\* login, given the row findByEmail returned
login(user, input) ==
    IF user = NoUserRow
    THEN Throw(AppError("UNAUTHORIZED", "Invalid email or password.",
                        Errors.UNAUTHORIZED))
    ELSE IF ~compare(input.password, user.passwordHash)
    THEN Throw(AppError("UNAUTHORIZED", "Invalid email or password.",
                        Errors.UNAUTHORIZED))
    ELSE Return(AuthResponse(user))

\* getCurrentUser refusing the token of a user it does not find
getCurrentUserUnauthorized(user) ==
    IF user = NoUserRow
    THEN Throw(AppError("UNAUTHORIZED", "Invalid or expired token.",
                        Errors.UNAUTHORIZED))
    ELSE Return(sanitizeUser(user))

\* getCurrentUser, given the row findById returned
getCurrentUser(user) ==
    IF user = NoUserRow
    THEN Throw(AppError("NOT_FOUND", "User not found.", Errors.NOT_FOUND))
    ELSE Return(sanitizeUser(user))

-----------------------------------------------------------------------------
(* The store the requests start from: the two users prisma/seed.ts
   creates and an empty projects table, which is the seeded store once
   the sample projects have been deleted through DELETE /projects/:id *)

SeedUsers ==
    {[id |-> 1, name |-> "Admin User", email |-> Email("admin", "example.com"),
      passwordHash |-> hash("Admin@1234"), role |-> "admin"],
     [id |-> 2, name |-> "Normal User", email |-> Email("user", "example.com"),
      passwordHash |-> hash("User@1234"), role |-> "user"]}

SeedAdmin == CHOOSE u \in SeedUsers : u.role = "admin"

Init ==
    /\ users = SeedUsers
    /\ projects = <<>>
    /\ nextUserId = Cardinality(SeedUsers) + 1
    /\ nextProjectId = 1
    /\ rateLimitStore = <<>>
    /\ now = 0
    /\ pend = [s \in Slots |-> Idle]
    /\ out = NoOut

-----------------------------------------------------------------------------
(* The requests the clients send *)

Claim(u) == [userId |-> u.id, role |-> u.role]
Bearer(token) == Header("Bearer ", token)

\* A token the server issued, still valid: to a user of the store, or to a
\* seeded user who may have been removed from the store since
ValidHeaders == {Bearer(sign(Claim(u))) : u \in users \cup SeedUsers}

\* No header; a token without the Bearer prefix; an empty token; a token
\* signed with another key; an expired token
BadHeaders ==
    {NoHeader,
     Header("", sign(Claim(SeedAdmin))),
     Bearer(EmptyTok),
     Bearer(Token(Claim(SeedAdmin), "another key", FALSE)),
     Bearer(Token(Claim(SeedAdmin), Secret, TRUE))}

Headers == ValidHeaders \cup BadHeaders

ProjectIds == 1..MaxProjects

Body(title, description, status, ownerId) ==
    [title |-> title, description |-> description, status |-> status,
     ownerId |-> ownerId]

CreateBodies ==
    {Body("T-1", Absent, Absent, Absent),
     Body("T-1", "D-1", "doing", Absent),
     Body("T-2", Absent, "todo", "1"),
     Body(Absent, "D-1", Absent, Absent),
     Body("ab", Absent, "bogus", Absent)}

PatchBodies ==
    [title : {Absent, "T-2"}, description : {Absent, "D-1"},
     status : {Absent, "doing"}, ownerId : {Absent}]
    \cup {Body("T-1", Absent, "todo", "1"),
          Body("ab", Absent, "bogus", Absent)}

Queries ==
    {[limit |-> NoParam, offset |-> NoParam],
     [limit |-> Param(<<"1">>), offset |-> Param(<<"1">>)],
     [limit |-> Param(<<"1">>), offset |-> Param(<<"0">>)],
     [limit |-> Param(<<"a", "b", "c">>), offset |-> NoParam],
     [limit |-> ManyParam, offset |-> ManyParam]}

-----------------------------------------------------------------------------
(* Exchanges *)

\* What is known of a request when it arrives
X(route, hdr) ==
    [kind |-> "response", route |-> route, hdr |-> hdr, ip |-> Unread,
     id |-> 0,
     body |-> UnreadBody, query |-> UnreadQuery, user |-> NoUser,
     stages |-> <<>>, stmts |-> <<>>, headers |-> NoHeaders,
     resp |-> NoResp]

\* The response is sent and the request is over
Reply(s, x, resp) ==
    /\ out' = [x EXCEPT !.resp = resp]
    /\ pend' = [pend EXCEPT ![s] = Idle]

\* The response leaves the process
Respond ==
    /\ out # NoOut
    /\ out' = NoOut
    /\ UNCHANGED <<users, projects, nextUserId, nextProjectId, rateLimitStore,
                   now, pend>>

\* A request is taken by a free slot; a handler resumes with its statement.
\* One response is written at a time.
Arrives(s)     == out = NoOut /\ pend[s] = Idle
Resumes(s, op) == out = NoOut /\ pend[s].op = op

\* The handler awaits a statement
Await(s, op, x, data) ==
    /\ out' = NoOut
    /\ pend' = [pend EXCEPT ![s] = [op |-> op, x |-> x, data |-> data]]

NotAuthenticated == PlainError("User not authenticated")

-----------------------------------------------------------------------------
(* routes/projects.routes.ts with controllers/projects.controller.ts:
   router.use(authenticate), then the controller *)

\* POST /projects: create
PostProjects(s) ==
    /\ Arrives(s)
    /\ UNCHANGED <<rateLimitStore, now, users, nextUserId>>
    /\ \E hdr \in Headers :
        LET a  == authenticate(hdr)
            x0 == [X("POST /projects", hdr) EXCEPT
                     !.stages = <<"authenticate">>]
        IN IF ~a.next
           THEN Reply(s, x0, a.resp) /\ UNCHANGED <<projects, nextProjectId>>
           ELSE \E body \in CreateBodies :
                LET x1 == [x0 EXCEPT !.user = a.user, !.body = body,
                                     !.stages = @ \o <<"create">>]
                    v  == createProjectSchema(body)
                IN IF a.user = NoUser
                   THEN /\ Reply(s, x1, errorHandler(NotAuthenticated))
                        /\ UNCHANGED <<projects, nextProjectId>>
                   ELSE IF ~v.ok
                   THEN /\ Reply(s, x1, errorHandler(ZodError(v.issues)))
                        /\ UNCHANGED <<projects, nextProjectId>>
                   ELSE /\ nextProjectId <= MaxProjects
                        /\ LET r == projectCreate(projects, users,
                                        createProject(a.user.userId, v.value),
                                        nextProjectId)
                               x2 == [x1 EXCEPT !.stmts = <<"create">>]
                           IN IF r.threw
                              THEN /\ Reply(s, x2, errorHandler(r.err))
                                   /\ UNCHANGED <<projects, nextProjectId>>
                              ELSE /\ projects' = r.table
                                   /\ nextProjectId' = nextProjectId + 1
                                   /\ Reply(s, x2, sendSuccess(r.row, 201))

\* GET /projects/:id: getById
GetProjectById(s) ==
    /\ Arrives(s)
    /\ UNCHANGED <<rateLimitStore, now, users, nextUserId, projects, nextProjectId>>
    /\ \E hdr \in Headers :
        LET a  == authenticate(hdr)
            x0 == [X("GET /projects/:id", hdr) EXCEPT
                     !.stages = <<"authenticate">>]
        IN IF ~a.next
           THEN Reply(s, x0, a.resp)
           ELSE \E id \in ProjectIds :
                LET x1 == [x0 EXCEPT !.user = a.user, !.id = id,
                                     !.stages = @ \o <<"getById">>]
                    r  == getProjectById(projectFindUnique(projects, id),
                                         a.user.userId)
                    x2 == [x1 EXCEPT !.stmts = <<"findUnique">>]
                IN IF a.user = NoUser
                   THEN Reply(s, x1, errorHandler(NotAuthenticated))
                   ELSE IF r.threw
                   THEN Reply(s, x2, errorHandler(r.err))
                   ELSE Reply(s, x2, sendSuccess(r.value, 200))

\* update with the verdict of the schema after the lookup and the checks
\* of the service
PatchProjectLookupFirst(s) ==
    /\ Arrives(s)
    /\ UNCHANGED <<rateLimitStore, now, users, nextUserId, projects, nextProjectId>>
    /\ \E hdr \in Headers :
        LET a  == authenticate(hdr)
            x0 == [X("PATCH /projects/:id", hdr) EXCEPT
                     !.stages = <<"authenticate">>]
        IN IF ~a.next
           THEN Reply(s, x0, a.resp)
           ELSE \E id \in ProjectIds, body \in PatchBodies :
                LET x1 == [x0 EXCEPT !.user = a.user, !.id = id, !.body = body,
                                     !.stages = @ \o <<"update">>]
                    v  == updateProjectSchema(body)
                    r  == updateProject(projectFindUnique(projects, id),
                                        a.user.userId, v.value)
                    x2 == [x1 EXCEPT !.stmts = <<"findUnique">>]
                IN IF a.user = NoUser
                   THEN Reply(s, x1, errorHandler(NotAuthenticated))
                   ELSE IF r.threw
                   THEN Reply(s, x2, errorHandler(r.err))
                   ELSE IF ~v.ok
                   THEN Reply(s, x2, errorHandler(ZodError(v.issues)))
                   ELSE Await(s, "update", x2, r.value)

\* PATCH /projects/:id: update, up to the update statement
PatchProject(s) ==
    /\ Arrives(s)
    /\ UNCHANGED <<rateLimitStore, now, users, nextUserId, projects, nextProjectId>>
    /\ \E hdr \in Headers :
        LET a  == authenticate(hdr)
            x0 == [X("PATCH /projects/:id", hdr) EXCEPT
                     !.stages = <<"authenticate">>]
        IN IF ~a.next
           THEN Reply(s, x0, a.resp)
           ELSE \E id \in ProjectIds, body \in PatchBodies :
                LET x1 == [x0 EXCEPT !.user = a.user, !.id = id, !.body = body,
                                     !.stages = @ \o <<"update">>]
                    v  == updateProjectSchema(body)
                    r  == updateProject(projectFindUnique(projects, id),
                                        a.user.userId, v.value)
                    x2 == [x1 EXCEPT !.stmts = <<"findUnique">>]
                IN IF a.user = NoUser
                   THEN Reply(s, x1, errorHandler(NotAuthenticated))
                   ELSE IF ~v.ok
                   THEN Reply(s, x1, errorHandler(ZodError(v.issues)))
                   ELSE IF r.threw
                   THEN Reply(s, x2, errorHandler(r.err))
                   ELSE Await(s, "update", x2, r.value)

\* The update statement of updateProject, and the response
UpdateStatement(s) ==
    /\ Resumes(s, "update")
    /\ UNCHANGED <<rateLimitStore, now, users, nextUserId, nextProjectId>>
    /\ LET x == [pend[s].x EXCEPT !.stmts = @ \o <<"update">>]
           r == projectUpdate(projects, x.id, pend[s].data)
       IN IF r.threw
          THEN Reply(s, x, errorHandler(r.err)) /\ UNCHANGED projects
          ELSE projects' = r.table /\ Reply(s, x, sendSuccess(r.row, 200))

Deleted == [message |-> "Project deleted successfully"]

\* DELETE /projects/:id: remove, up to the delete statement
DeleteProject(s) ==
    /\ Arrives(s)
    /\ UNCHANGED <<rateLimitStore, now, users, nextUserId, projects, nextProjectId>>
    /\ \E hdr \in Headers :
        LET a  == authenticate(hdr)
            x0 == [X("DELETE /projects/:id", hdr) EXCEPT
                     !.stages = <<"authenticate">>]
        IN IF ~a.next
           THEN Reply(s, x0, a.resp)
           ELSE \E id \in ProjectIds :
                LET x1 == [x0 EXCEPT !.user = a.user, !.id = id,
                                     !.stages = @ \o <<"remove">>]
                    r  == deleteProject(projectFindUnique(projects, id),
                                        a.user.userId)
                    x2 == [x1 EXCEPT !.stmts = <<"findUnique">>]
                IN IF a.user = NoUser
                   THEN Reply(s, x1, errorHandler(NotAuthenticated))
                   ELSE IF r.threw
                   THEN Reply(s, x2, errorHandler(r.err))
                   ELSE Await(s, "delete", x2, NoData)

\* The delete statement of deleteProject, and the response
DeleteStatement(s) ==
    /\ Resumes(s, "delete")
    /\ UNCHANGED <<rateLimitStore, now, users, nextUserId, nextProjectId>>
    /\ LET x == [pend[s].x EXCEPT !.stmts = @ \o <<"delete">>]
           r == projectDelete(projects, x.id)
       IN IF r.threw
          THEN Reply(s, x, errorHandler(r.err)) /\ UNCHANGED projects
          ELSE projects' = r.table /\ Reply(s, x, sendSuccess(Deleted, 200))

Page(items, total, pagination) ==
    [items |-> items, total |-> total, limit |-> pagination.limit.n,
     offset |-> pagination.offset.n]

\* GET /projects: list, with getProjectsByOwner up to the first of the two
\* statements of its Promise.all, which the store runs in either order
GetProjects(s) ==
    /\ Arrives(s)
    /\ UNCHANGED <<rateLimitStore, now, users, nextUserId, projects, nextProjectId>>
    /\ \E hdr \in Headers :
        LET a  == authenticate(hdr)
            x0 == [X("GET /projects", hdr) EXCEPT
                     !.stages = <<"authenticate">>]
        IN IF ~a.next
           THEN Reply(s, x0, a.resp)
           ELSE \E query \in Queries :
                LET x1 == [x0 EXCEPT !.user = a.user, !.query = query,
                                     !.stages = @ \o <<"list">>]
                    pg == paginationSchema(query)
                    r  == projectFindManyByOwner(projects, a.user.userId,
                                                 pg.offset, pg.limit)
                IN IF a.user = NoUser
                   THEN Reply(s, x1, errorHandler(NotAuthenticated))
                   ELSE IF paginationIssues(query) # <<>>
                   THEN Reply(s, x1,
                              errorHandler(ZodError(paginationIssues(query))))
                   ELSE \/ IF r.threw
                           THEN Reply(s, [x1 EXCEPT !.stmts = <<"findMany">>],
                                      errorHandler(r.err))
                           ELSE Await(s, "count",
                                      [x1 EXCEPT !.stmts = <<"findMany">>],
                                      [pagination |-> pg, items |-> r.value])
                        \/ Await(s, "findMany",
                                 [x1 EXCEPT !.stmts = <<"count">>],
                                 [pagination |-> pg,
                                  total |-> projectCountByOwner(projects,
                                                a.user.userId)])

\* getProjectsByOwner: the count statement when it runs second
CountStatement(s) ==
    /\ Resumes(s, "count")
    /\ UNCHANGED <<rateLimitStore, now, users, nextUserId, projects, nextProjectId>>
    /\ LET x == [pend[s].x EXCEPT !.stmts = @ \o <<"count">>]
       IN Reply(s, x, sendSuccess(
                  Page(pend[s].data.items,
                       projectCountByOwner(projects, x.user.userId),
                       pend[s].data.pagination), 200))

\* getProjectsByOwner: the findMany statement when it runs second
FindManyStatement(s) ==
    /\ Resumes(s, "findMany")
    /\ UNCHANGED <<rateLimitStore, now, users, nextUserId, projects, nextProjectId>>
    /\ LET x  == [pend[s].x EXCEPT !.stmts = @ \o <<"findMany">>]
           pg == pend[s].data.pagination
           r  == projectFindManyByOwner(projects, x.user.userId,
                                        pg.offset, pg.limit)
       IN IF r.threw
          THEN Reply(s, x, errorHandler(r.err))
          ELSE Reply(s, x, sendSuccess(Page(r.value, pend[s].data.total, pg),
                                       200))

-----------------------------------------------------------------------------
(* routes/admin.routes.ts with controllers/admin.controller.ts:
   router.use(authenticate), router.use(requireAdmin), then the controller *)

\* GET /admin/projects: listAllProjects, with getAllProjects up to the
\* first of the two statements of its Promise.all
AdminGetProjects(s) ==
    /\ Arrives(s)
    /\ UNCHANGED <<rateLimitStore, now, users, nextUserId, projects, nextProjectId>>
    /\ \E hdr \in Headers :
        LET a  == authenticate(hdr)
            g  == requireAdmin(a.user)
            x0 == [X("GET /admin/projects", hdr) EXCEPT
                     !.stages = <<"authenticate">>]
            x1 == [x0 EXCEPT !.user = a.user,
                             !.stages = @ \o <<"requireAdmin">>]
        IN IF ~a.next
           THEN Reply(s, x0, a.resp)
           ELSE IF ~g.next
           THEN Reply(s, x1, g.resp)
           ELSE \E query \in Queries :
                LET x2 == [x1 EXCEPT !.query = query,
                                     !.stages = @ \o <<"listAllProjects">>]
                    pg == paginationSchema(query)
                    r  == projectFindManyWithOwner(projects, users,
                                                   pg.offset, pg.limit)
                IN IF paginationIssues(query) # <<>>
                   THEN Reply(s, x2,
                              errorHandler(ZodError(paginationIssues(query))))
                   ELSE
                   \/ IF r.threw
                      THEN Reply(s, [x2 EXCEPT !.stmts = <<"findMany">>],
                                 errorHandler(r.err))
                      ELSE Await(s, "adminCount",
                                 [x2 EXCEPT !.stmts = <<"findMany">>],
                                 [pagination |-> pg, items |-> r.value])
                   \/ Await(s, "adminFindMany",
                            [x2 EXCEPT !.stmts = <<"count">>],
                            [pagination |-> pg,
                             total |-> projectCount(projects)])

\* getAllProjects: the count statement when it runs second
AdminCountStatement(s) ==
    /\ Resumes(s, "adminCount")
    /\ UNCHANGED <<rateLimitStore, now, users, nextUserId, projects, nextProjectId>>
    /\ LET x == [pend[s].x EXCEPT !.stmts = @ \o <<"count">>]
       IN Reply(s, x, sendSuccess(
                  Page(pend[s].data.items, projectCount(projects),
                       pend[s].data.pagination), 200))

\* getAllProjects: the findMany statement when it runs second
AdminFindManyStatement(s) ==
    /\ Resumes(s, "adminFindMany")
    /\ UNCHANGED <<rateLimitStore, now, users, nextUserId, projects, nextProjectId>>
    /\ LET x  == [pend[s].x EXCEPT !.stmts = @ \o <<"findMany">>]
           pg == pend[s].data.pagination
           r  == projectFindManyWithOwner(projects, users,
                                          pg.offset, pg.limit)
       IN IF r.threw
          THEN Reply(s, x, errorHandler(r.err))
          ELSE Reply(s, x, sendSuccess(Page(r.value, pend[s].data.total, pg),
                                       200))

\* DELETE /admin/projects/:id with the lookup sent before the role check
AdminDeleteProjectLookupFirst(s) ==
    /\ Arrives(s)
    /\ UNCHANGED <<rateLimitStore, now, users, nextUserId, projects, nextProjectId>>
    /\ \E hdr \in Headers :
        LET a  == authenticate(hdr)
            g  == requireAdmin(a.user)
            x0 == [X("DELETE /admin/projects/:id", hdr) EXCEPT
                     !.stages = <<"authenticate">>]
            x1 == [x0 EXCEPT !.user = a.user,
                             !.stages = @ \o <<"requireAdmin">>]
        IN IF ~a.next
           THEN Reply(s, x0, a.resp)
           ELSE \E id \in ProjectIds :
                LET x2 == [x1 EXCEPT !.id = id,
                                     !.stages = @ \o <<"deleteProject">>,
                                     !.stmts = <<"findUnique">>]
                    r  == adminDeleteProject(projectFindUnique(projects, id))
                IN IF ~g.next
                   THEN Reply(s, [x1 EXCEPT !.stmts = <<"findUnique">>], g.resp)
                   ELSE IF r.threw
                   THEN Reply(s, x2, errorHandler(r.err))
                   ELSE Await(s, "adminDelete", x2, NoData)

\* DELETE /admin/projects/:id: deleteProject of the admin controller, with
\* adminDeleteProject up to its delete statement
AdminDeleteProject(s) ==
    /\ Arrives(s)
    /\ UNCHANGED <<rateLimitStore, now, users, nextUserId, projects, nextProjectId>>
    /\ \E hdr \in Headers :
        LET a  == authenticate(hdr)
            g  == requireAdmin(a.user)
            x0 == [X("DELETE /admin/projects/:id", hdr) EXCEPT
                     !.stages = <<"authenticate">>]
            x1 == [x0 EXCEPT !.user = a.user,
                             !.stages = @ \o <<"requireAdmin">>]
        IN IF ~a.next
           THEN Reply(s, x0, a.resp)
           ELSE IF ~g.next
           THEN Reply(s, x1, g.resp)
           ELSE \E id \in ProjectIds :
                LET x2 == [x1 EXCEPT !.id = id,
                                     !.stages = @ \o <<"deleteProject">>,
                                     !.stmts = <<"findUnique">>]
                    r  == adminDeleteProject(projectFindUnique(projects, id))
                IN IF r.threw
                   THEN Reply(s, x2, errorHandler(r.err))
                   ELSE Await(s, "adminDelete", x2, NoData)

\* The delete statement of adminDeleteProject, and the response
AdminDeleteStatement(s) ==
    /\ Resumes(s, "adminDelete")
    /\ UNCHANGED <<rateLimitStore, now, users, nextUserId, nextProjectId>>
    /\ LET x == [pend[s].x EXCEPT !.stmts = @ \o <<"delete">>]
           r == projectDelete(projects, x.id)
       IN IF r.threw
          THEN Reply(s, x, errorHandler(r.err)) /\ UNCHANGED projects
          ELSE projects' = r.table /\ Reply(s, x, sendSuccess(Deleted, 200))

-----------------------------------------------------------------------------
(* routes/auth.routes.ts with controllers/auth.controller.ts:
   authRateLimit before register and login, authenticate before me *)

RegisterBody(name, email, password, role) ==
    [name |-> name, email |-> email, password |-> password, role |-> role]

LoginBody(email, password) == [email |-> email, password |-> password]

UnreadHeader == Header(Unread, EmptyTok)
UnreadRegisterBody ==
    RegisterBody(Unread, Email(Unread, Unread), Unread, Unread)
UnreadLoginBody == LoginBody(Email(Unread, Unread), Unread)

RegisterBodies ==
    {RegisterBody("Ann", Email("ann", "example.com"), "password123", Absent),
     RegisterBody("Bob", Email("ann", "example.com"), "another-pass", "admin"),
     RegisterBody("Cy", Email("cy", "example.com"), "password123", Absent),
     RegisterBody("Ann", Email("user", "example.com"), "password123", Absent),
     RegisterBody("Ann", Email("user", "example.com"), "short", Absent),
     RegisterBody("", Email("not-an-email", Absent), Absent, Absent)}

LoginBodies ==
    {LoginBody(Email("user", "example.com"), "User@1234"),
     LoginBody(Email("user", "example.com"), "password123"),
     LoginBody(Email("ann", "example.com"), "password123"),
     LoginBody(Email("nobody", "example.com"), "User@1234"),
     LoginBody(Email("user", "example.com"), ""),
     LoginBody(Email("not-an-email", Absent), "User@1234"),
     LoginBody(Email("admin", "example.com"), "Admin@1234")}

\* The limiter of the auth routes takes the request of clientKey
Limited(clientKey) ==
    rateLimit(rateLimitStore, clientKey, now, authWindowMs, authMaxRequests)

\* POST /auth/register: register, up to the call of findByEmail.  The
\* lookup is a step of its own: a second request can be taken before the
\* store has run the lookup of the first.
PostRegister(s, clientKey) ==
    /\ Arrives(s)
    /\ Limited(clientKey).store[clientKey].count <= MaxCount
    /\ rateLimitStore' = Limited(clientKey).store
    /\ UNCHANGED <<now, users, nextUserId, projects, nextProjectId>>
    /\ LET l  == Limited(clientKey)
           x0 == [X("POST /auth/register", UnreadHeader) EXCEPT
                    !.body = UnreadRegisterBody,
                    !.ip = clientKey,
                    !.stages = <<"authRateLimit">>,
                    !.headers = l.headers]
       IN IF ~l.next
          THEN Reply(s, x0, l.resp)
          ELSE \E body \in RegisterBodies :
               LET x1 == [x0 EXCEPT !.body = body,
                                    !.stages = @ \o <<"register">>]
                   v  == registerSchema(body)
               IN IF ~v.ok
                  THEN Reply(s, x1, errorHandler(ZodError(v.issues)))
                  ELSE Await(s, "findByEmail", x1, v.value)

\* The lookup of register, the check, and the hash of the password
FindByEmailStatement(s) ==
    /\ Resumes(s, "findByEmail")
    /\ UNCHANGED <<rateLimitStore, now, users, nextUserId, projects,
                   nextProjectId>>
    /\ LET x == [pend[s].x EXCEPT !.stmts = <<"findUnique">>]
           r == register(findByEmail(users, pend[s].data.email), pend[s].data)
       IN IF r.threw
          THEN Reply(s, x, errorHandler(r.err))
          ELSE Await(s, "createUser", x, r.value)

\* The create statement of register, the token and the response
CreateUserStatement(s) ==
    /\ Resumes(s, "createUser")
    /\ UNCHANGED <<rateLimitStore, now, projects, nextProjectId>>
    /\ LET x == [pend[s].x EXCEPT !.stmts = @ \o <<"create">>]
           r == userCreate(users, pend[s].data, nextUserId)
       IN IF r.threw
          THEN /\ Reply(s, x, errorHandler(r.err))
               /\ UNCHANGED <<users, nextUserId>>
          ELSE /\ users' = r.table
               /\ nextUserId' = nextUserId + 1
               /\ Reply(s, x, sendSuccess(AuthResponse(r.row), 201))

\* POST /auth/login: login
PostLogin(s, clientKey) ==
    /\ Arrives(s)
    /\ Limited(clientKey).store[clientKey].count <= MaxCount
    /\ rateLimitStore' = Limited(clientKey).store
    /\ UNCHANGED <<now, users, nextUserId, projects, nextProjectId>>
    /\ LET l  == Limited(clientKey)
           x0 == [X("POST /auth/login", UnreadHeader) EXCEPT
                    !.body = UnreadLoginBody,
                    !.ip = clientKey,
                    !.stages = <<"authRateLimit">>,
                    !.headers = l.headers]
       IN IF ~l.next
          THEN Reply(s, x0, l.resp)
          ELSE \E body \in LoginBodies :
               LET x1 == [x0 EXCEPT !.body = body,
                                    !.stages = @ \o <<"login">>]
                   v  == loginSchema(body)
                   r  == login(findByEmail(users, v.value.email), v.value)
                   x2 == [x1 EXCEPT !.stmts = <<"findUnique">>]
               IN IF ~v.ok
                  THEN Reply(s, x1, errorHandler(ZodError(v.issues)))
                  ELSE IF r.threw
                  THEN Reply(s, x2, errorHandler(r.err))
                  ELSE Reply(s, x2, sendSuccess(r.value, 200))

\* GET /auth/me: me
GetMe(s) ==
    /\ Arrives(s)
    /\ UNCHANGED <<rateLimitStore, now, users, nextUserId, projects,
                   nextProjectId>>
    /\ \E hdr \in Headers :
        LET a  == authenticate(hdr)
            x0 == [X("GET /auth/me", hdr) EXCEPT !.stages = <<"authenticate">>]
            x1 == [x0 EXCEPT !.user = a.user, !.stages = @ \o <<"me">>]
            r  == getCurrentUser(findById(users, a.user.userId))
            x2 == [x1 EXCEPT !.stmts = <<"findUnique">>]
        IN IF ~a.next
           THEN Reply(s, x0, a.resp)
           ELSE IF a.user = NoUser
           THEN Reply(s, x1, errorHandler(NotAuthenticated))
           ELSE IF r.threw
           THEN Reply(s, x2, errorHandler(r.err))
           ELSE Reply(s, x2, sendSuccess(r.value, 200))

\* Time passes between two steps
Tick ==
    /\ out = NoOut
    /\ now < MaxNow
    /\ now' = now + 1
    /\ UNCHANGED <<users, projects, nextUserId, nextProjectId, rateLimitStore,
                   pend, out>>

\* The setInterval callback of the limiter runs
Sweep ==
    /\ out = NoOut
    /\ sweep(rateLimitStore, now) # rateLimitStore
    /\ rateLimitStore' = sweep(rateLimitStore, now)
    /\ UNCHANGED <<users, projects, nextUserId, nextProjectId, now, pend, out>>

-----------------------------------------------------------------------------
(* The projects and admin routes, one request at a time *)

Next ==
    \/ PostProjects(1)
    \/ GetProjects(1)
    \/ CountStatement(1)
    \/ FindManyStatement(1)
    \/ GetProjectById(1)
    \/ PatchProject(1)
    \/ UpdateStatement(1)
    \/ DeleteProject(1)
    \/ DeleteStatement(1)
    \/ AdminGetProjects(1)
    \/ AdminCountStatement(1)
    \/ AdminFindManyStatement(1)
    \/ AdminDeleteProject(1)
    \/ AdminDeleteStatement(1)
    \/ Respond

Spec == Init /\ [][Next]_vars

-----------------------------------------------------------------------------
(* The auth routes, one request at a time, all from one client address *)

ClientKey == "::1"

NextAuth ==
    \/ PostRegister(1, ClientKey)
    \/ FindByEmailStatement(1)
    \/ CreateUserStatement(1)
    \/ PostLogin(1, ClientKey)
    \/ GetMe(1)
    \/ Tick
    \/ Sweep
    \/ Respond

SpecAuth == Init /\ [][NextAuth]_vars

-----------------------------------------------------------------------------
(* Register requests that overlap: two slots, the statements of the two
   requests in any order *)

NextRace ==
    \/ PostRegister(1, ClientKey)
    \/ PostRegister(2, ClientKey)
    \/ FindByEmailStatement(1)
    \/ FindByEmailStatement(2)
    \/ CreateUserStatement(1)
    \/ CreateUserStatement(2)
    \/ Respond

SpecRace == Init /\ [][NextRace]_vars

-----------------------------------------------------------------------------
(* paginationSchema.parse(req.query) on its own, for the query strings a
   client can send: each parameter absent, repeated, empty, a number, zero,
   negative, above the range, with white space or a sign before the digits,
   with text after the digits, or no number at all *)

PaginationTexts ==
    {<<>>, <<"5">>, <<"0">>, <<"-", "3">>, <<"5", "1">>, <<"1", "0", "0">>,
     <<" ", "7">>, <<"+", "4">>, <<"7", "x">>, <<"a", "b", "c">>}

PaginationParams == {NoParam, ManyParam} \cup {Param(t) : t \in PaginationTexts}

ParsePagination ==
    /\ out = NoOut
    /\ \E query \in [limit : PaginationParams, offset : PaginationParams] :
          out' = [kind |-> "pagination", query |-> query,
                  ok |-> paginationIssues(query) = <<>>,
                  issues |-> paginationIssues(query),
                  value |-> paginationSchema(query)]
    /\ UNCHANGED <<users, projects, nextUserId, nextProjectId, rateLimitStore,
                   now, pend>>

NextPagination ==
    \/ ParsePagination
    \/ Respond

SpecPagination == Init /\ [][NextPagination]_vars

-----------------------------------------------------------------------------
(* The routes that validate a body or a query, one request at a time, on a
   store in which no project is created *)

NextValidation ==
    \/ PatchProject(1)
    \/ GetProjects(1)
    \/ CountStatement(1)
    \/ FindManyStatement(1)
    \/ PostRegister(1, ClientKey)
    \/ FindByEmailStatement(1)
    \/ CreateUserStatement(1)
    \/ PostLogin(1, ClientKey)
    \/ Respond

SpecValidation == Init /\ [][NextValidation]_vars

-----------------------------------------------------------------------------
(* Requests that meet the unexpected: a body that is not JSON, a limit that
   is no number, a user deleted from the store outside the API while the
   token issued to that user is still valid *)

\* The error express.json() passes to next() for a body it cannot parse
JsonSyntaxError ==
    [name |-> "SyntaxError", code |-> "",
     message |-> "Unexpected end of JSON input", statusCode |-> 400,
     issues |-> <<>>, target |-> Absent]

\* app.use(express.json()) on a request whose body is not JSON: the error
\* goes to errorHandler before any router sees the request
MalformedJson(s) ==
    /\ Arrives(s)
    /\ UNCHANGED <<rateLimitStore, now, users, nextUserId, projects, nextProjectId>>
    /\ \E route \in {"POST /projects", "PATCH /projects/:id"} :
          Reply(s, [X(route, UnreadHeader) EXCEPT !.stages = <<"express.json">>],
                errorHandler(JsonSyntaxError))

\* A row of "users" is deleted outside the API; the projects of the user go
\* with it (ON DELETE CASCADE)
RemoveUser ==
    /\ out = NoOut
    /\ \E u \in users :
          /\ users' = users \ {u}
          /\ projects' = [i \in {j \in DOMAIN projects :
                                    projects[j].ownerId # u.id} |-> projects[i]]
    /\ UNCHANGED <<nextUserId, nextProjectId, rateLimitStore, now, pend, out>>

NextUnexpected ==
    \/ MalformedJson(1)
    \/ PostProjects(1)
    \/ GetProjects(1)
    \/ CountStatement(1)
    \/ FindManyStatement(1)
    \/ GetMe(1)
    \/ RemoveUser
    \/ Respond

SpecUnexpected == Init /\ [][NextUnexpected]_vars

-----------------------------------------------------------------------------
(* Requests on one project that overlap: a PATCH of its owner or a DELETE
   of an admin in slot 1, a DELETE of its owner in slot 2, the lookups and
   the statements of the two in any order *)

NextProjectRace ==
    \/ PostProjects(1)
    \/ PatchProject(1)
    \/ UpdateStatement(1)
    \/ AdminDeleteProject(1)
    \/ AdminDeleteStatement(1)
    \/ DeleteProject(2)
    \/ DeleteStatement(2)
    \/ Respond

SpecProjectRace == Init /\ [][NextProjectRace]_vars

-----------------------------------------------------------------------------
(* A list that overlaps a create or a delete: the creates and deletes in
   slot 1, the lists in slot 2, whose two statements the store runs in
   either order, with the statements of slot 1 before, between or after *)

NextListRace ==
    \/ PostProjects(1)
    \/ DeleteProject(1)
    \/ DeleteStatement(1)
    \/ GetProjects(2)
    \/ CountStatement(2)
    \/ FindManyStatement(2)
    \/ AdminGetProjects(2)
    \/ AdminCountStatement(2)
    \/ AdminFindManyStatement(2)
    \/ Respond

SpecListRace == Init /\ [][NextListRace]_vars

-----------------------------------------------------------------------------
(* PATCH requests on one project that overlap: two slots, the lookups and
   the update statements of the two requests in any order.  The store is
   the seeded one after the second sample project has been deleted: the
   two users and the first sample project of the normal user. *)

SampleProject ==
    [id |-> 1, title |-> "Sample Project 1",
     description |-> "This is a sample project in todo status",
     status |-> "todo", ownerId |-> 2, createdAt |-> 1]

InitSeeded ==
    /\ users = SeedUsers
    /\ projects = [i \in {1} |-> SampleProject]
    /\ nextUserId = Cardinality(SeedUsers) + 1
    /\ nextProjectId = 2
    /\ rateLimitStore = <<>>
    /\ now = 0
    /\ pend = [s \in Slots |-> Idle]
    /\ out = NoOut

NextUpdateRace ==
    \/ PatchProject(1)
    \/ UpdateStatement(1)
    \/ PatchProject(2)
    \/ UpdateStatement(2)
    \/ Respond

SpecUpdateRace == InitSeeded /\ [][NextUpdateRace]_vars

-----------------------------------------------------------------------------
(* A client that repeats its PATCH: the request that has just been
   answered with success is sent again, with the same token, id and body,
   before any other request *)

\* PATCH /projects/:id once more: update, up to the call of update, for the
\* request of the response being sent; the exchange remembers the data of
\* that first response
PatchProjectAgain(s) ==
    /\ pend[s] = Idle
    /\ out.kind = "response" /\ out.route = "PATCH /projects/:id"
    /\ out.resp.success
    /\ UNCHANGED <<rateLimitStore, now, users, nextUserId, projects, nextProjectId>>
    /\ LET a  == authenticate(out.hdr)
           x0 == [(X("PATCH /projects/:id", out.hdr)
                       @@ [first |-> out.resp.data]) EXCEPT
                    !.stages = <<"authenticate">>]
           x1 == [x0 EXCEPT !.user = a.user, !.id = out.id, !.body = out.body,
                            !.stages = @ \o <<"update">>]
           v  == updateProjectSchema(out.body)
           r  == updateProject(projectFindUnique(projects, out.id),
                               a.user.userId, v.value)
           x2 == [x1 EXCEPT !.stmts = <<"findUnique">>]
       IN IF ~a.next
          THEN Reply(s, x0, a.resp)
          ELSE IF a.user = NoUser
          THEN Reply(s, x1, errorHandler(NotAuthenticated))
          ELSE IF ~v.ok
          THEN Reply(s, x1, errorHandler(ZodError(v.issues)))
          ELSE IF r.threw
          THEN Reply(s, x2, errorHandler(r.err))
          ELSE Await(s, "update", x2, r.value)

NextRepeat ==
    \/ PostProjects(1)
    \/ PatchProject(1)
    \/ PatchProjectAgain(1)
    \/ UpdateStatement(1)
    \/ Respond

SpecRepeat == Init /\ [][NextRepeat]_vars

-----------------------------------------------------------------------------
(* The rate-limited routes, one request at a time, while time passes and
   the sweep runs: one client address registers and logs in, another logs
   in *)

OtherKey == "10.0.0.2"

ClientKeys == {ClientKey, OtherKey}

NextLimit ==
    \/ PostRegister(1, ClientKey)
    \/ FindByEmailStatement(1)
    \/ CreateUserStatement(1)
    \/ PostLogin(1, ClientKey)
    \/ PostLogin(1, OtherKey)
    \/ Tick
    \/ Sweep
    \/ Respond

SpecLimit == Init /\ [][NextLimit]_vars

-----------------------------------------------------------------------------
(* Properties *)

IsResponse(x) == x.kind = "response"

\* The step sends the response of an exchange
Answers == out = NoOut /\ IsResponse(out')

ByIdRoutes ==
    {"GET /projects/:id", "PATCH /projects/:id", "DELETE /projects/:id"}
AdminRoutes == {"GET /admin/projects", "DELETE /admin/projects/:id"}

HasCode(resp, code, status) ==
    ~resp.success /\ resp.code = code /\ resp.status = status

\* The outcome existence-then-ownership gives for exchange x on table P
ExistenceThenOwnership(x, P) ==
    IF x.id \notin DOMAIN P
    THEN HasCode(x.resp, "NOT_FOUND", 404)
    ELSE IF P[x.id].ownerId # x.user.userId
    THEN HasCode(x.resp, "FORBIDDEN", 403) /\ x.resp.data = NoData
    ELSE x.resp.success

\* A handler goes on to its update or delete statement only for a project
\* that exists and that the requester owns
ProceedsOnlyForOwner ==
    \A s \in Slots :
        (pend'[s] # pend[s] /\ pend'[s].op \in {"update", "delete"})
            => /\ pend'[s].x.id \in DOMAIN projects
               /\ projects[pend'[s].x.id].ownerId = pend'[s].x.user.userId

\* On PATCH, the body passes updateProjectSchema
PatchBodyPasses(x) ==
    x.route = "PATCH /projects/:id" => updateProjectSchema(x.body).ok

\* C1 as stated: for every request with a valid token on GET, PATCH or
\* DELETE /projects/{id}, the answer is NOT_FOUND when no project has the
\* id, FORBIDDEN (nothing returned, changed or removed) when the project is
\* another user's, and the operation proceeds only for the owner.
C1_AsStated ==
    [][
        /\ (Answers /\ out'.route \in ByIdRoutes /\ out'.user # NoUser)
            => /\ ExistenceThenOwnership(out', projects)
               /\ ~out'.resp.success => projects' = projects
        /\ ProceedsOnlyForOwner]_vars

\* C1, amended: the same for every such request that the handler hands to
\* the service, which for PATCH is one whose body passes updateProjectSchema
\* (a PATCH whose body fails the schema is answered VALIDATION_ERROR before
\* any lookup).
C1_ExistenceBeforeOwnership ==
    [][
        /\ (Answers /\ out'.route \in ByIdRoutes /\ out'.user # NoUser
               /\ PatchBodyPasses(out'))
            => /\ ExistenceThenOwnership(out', projects)
               /\ ~out'.resp.success => projects' = projects
        /\ ProceedsOnlyForOwner]_vars

\* A PATCH with a valid body on another user's project was answered
\* FORBIDDEN
C1_Witness ==
    /\ IsResponse(out) /\ out.route = "PATCH /projects/:id"
    /\ updateProjectSchema(out.body).ok
    /\ out.id \in DOMAIN projects
    /\ projects[out.id].ownerId # out.user.userId
    /\ HasCode(out.resp, "FORBIDDEN", 403)

\* C2: ownership isolation.  In every step, a project whose title,
\* description or status changes is the subject of a successful PATCH by
\* its owner or an admin, a project that disappears is the subject of a
\* successful DELETE by its owner or of a successful admin delete, and
\* nothing else of a project (id, owner, creation time) ever changes.
C2_OwnershipIsolation ==
    [][\A id \in DOMAIN projects :
          /\ (id \in DOMAIN projects' /\ projects'[id] # projects[id])
                => /\ IsResponse(out') /\ out'.resp.success
                   /\ out'.route = "PATCH /projects/:id" /\ out'.id = id
                   /\ \/ out'.user.userId = projects[id].ownerId
                      \/ out'.user.role = "admin"
                   /\ projects'[id].id = id
                   /\ projects'[id].ownerId = projects[id].ownerId
                   /\ projects'[id].createdAt = projects[id].createdAt
          /\ id \notin DOMAIN projects'
                => /\ IsResponse(out') /\ out'.resp.success /\ out'.id = id
                   /\ \/ /\ out'.route = "DELETE /projects/:id"
                         /\ out'.user.userId = projects[id].ownerId
                      \/ /\ out'.route = "DELETE /admin/projects/:id"
                         /\ out'.user.role = "admin"]_vars

\* A user who is not an admin asked to delete another user's project, and
\* the project is still there
C2_Witness ==
    /\ IsResponse(out) /\ out.route = "DELETE /projects/:id"
    /\ out.user.role = "user"
    /\ out.id \in DOMAIN projects
    /\ projects[out.id].ownerId # out.user.userId
    /\ ~out.resp.success

\* The header has the form "Bearer <token>" and the token verifies
BearerTokenVerifies(hdr) ==
    hdr.scheme = "Bearer " /\ hdr.token.sig = Secret /\ ~hdr.token.expired

\* C3: in every exchange on a route behind authenticate, the request goes
\* past authenticate exactly when its header is "Bearer <token>" with a
\* token that verifies, and then the claim of the token is attached to the
\* request; in every other case the response is 401 UNAUTHORIZED and
\* neither a later stage nor the store is reached.
C3_Authenticate ==
    (IsResponse(out) /\ Len(out.stages) > 0 /\ out.stages[1] = "authenticate")
        => IF BearerTokenVerifies(out.hdr)
           THEN /\ Len(out.stages) > 1
                /\ out.user = [userId |-> out.hdr.token.userId,
                               role |-> out.hdr.token.role]
           ELSE /\ out.stages = <<"authenticate">>
                /\ out.stmts = <<>>
                /\ out.user = NoUser
                /\ HasCode(out.resp, "UNAUTHORIZED", 401)

\* A validly signed token sent without the Bearer prefix was refused
C3_Witness ==
    /\ IsResponse(out) /\ out.stages = <<"authenticate">>
    /\ out.hdr.scheme = "" /\ out.hdr.token.sig = Secret
    /\ ~out.hdr.token.expired
    /\ HasCode(out.resp, "UNAUTHORIZED", 401)

\* C4: in every exchange on an /admin route authenticate is the first stage
\* and requireAdmin the second; without a token that verifies the answer is
\* 401 UNAUTHORIZED; with a verified claim whose role is not admin it is
\* 403 FORBIDDEN and neither the handler nor the store is reached; the
\* handler runs only for a claim with role admin.
C4_AdminGate ==
    (IsResponse(out) /\ out.route \in AdminRoutes)
        => /\ out.stages[1] = "authenticate"
           /\ IF ~BearerTokenVerifies(out.hdr)
              THEN /\ HasCode(out.resp, "UNAUTHORIZED", 401)
                   /\ out.stages = <<"authenticate">> /\ out.stmts = <<>>
              ELSE IF out.hdr.token.role # "admin"
              THEN /\ HasCode(out.resp, "FORBIDDEN", 403)
                   /\ out.stages = <<"authenticate", "requireAdmin">>
                   /\ out.stmts = <<>>
              ELSE /\ Len(out.stages) = 3
                   /\ SubSeq(out.stages, 1, 2) = <<"authenticate", "requireAdmin">>
                   /\ out.user.role = "admin"

\* A user who is not an admin was refused on DELETE /admin/projects/:id
\* while a project existed
C4_Witness ==
    /\ IsResponse(out) /\ out.route = "DELETE /admin/projects/:id"
    /\ out.user.role = "user"
    /\ HasCode(out.resp, "FORBIDDEN", 403)
    /\ projects # <<>>

PatchFields == {"title", "description", "status"}

\* C9: in every step in which the update statement of UpdateProject runs
\* for the owner, the answer is 200 with the updated record, every field
\* the body supplies has the supplied value afterwards, every field it
\* omits keeps the value it had before (so an empty body changes nothing),
\* and no other project changes.
C9_PartialUpdate ==
    [][(Answers /\ out'.route = "PATCH /projects/:id"
               /\ out'.stmts = <<"findUnique", "update">>)
          => LET id     == out'.id
                 before == projects[id]
                 after  == projects'[id]
             IN /\ before.ownerId = out'.user.userId
                /\ \A f \in PatchFields :
                      after[f] = IF out'.body[f] = Absent THEN before[f]
                                 ELSE out'.body[f]
                /\ after.id = id /\ after.ownerId = before.ownerId
                /\ out'.resp.success /\ out'.resp.status = 200
                /\ out'.resp.data = after
                /\ DOMAIN projects' = DOMAIN projects
                /\ \A i \in DOMAIN projects \ {id} :
                      projects'[i] = projects[i]]_vars

\* A PATCH that supplied only the status "doing" was answered with a
\* project that has kept its description "D-1"
C9_Witness ==
    /\ IsResponse(out) /\ out.route = "PATCH /projects/:id"
    /\ out.body = Body(Absent, Absent, "doing", Absent)
    /\ out.resp.success
    /\ out.resp.data.status = "doing" /\ out.resp.data.description = "D-1"
    /\ projects[out.id] = out.resp.data

\* C10: in every step in which the create statement of CreateProject runs,
\* the new project has a fresh id, the owner is the subject of the
\* caller's token whatever the body says, the status is the supplied one or
\* "todo", the description the supplied one or NULL, the answer is 201 with
\* the new project, and every project that existed is unchanged.
C10_CreateProject ==
    [][(Answers /\ out'.route = "POST /projects"
               /\ out'.stmts = <<"create">>)
          => LET new == DOMAIN projects' \ DOMAIN projects IN
             /\ Cardinality(new) = 1
             /\ \A id \in new :
                   /\ projects'[id].ownerId = out'.hdr.token.userId
                   /\ projects'[id].title = out'.body.title
                   /\ projects'[id].status =
                         IF out'.body.status = Absent THEN "todo"
                         ELSE out'.body.status
                   /\ projects'[id].description =
                         IF out'.body.description = Absent THEN Null
                         ELSE out'.body.description
                   /\ out'.resp.success /\ out'.resp.status = 201
                   /\ out'.resp.data = projects'[id]
             /\ \A i \in DOMAIN projects :
                   i \in DOMAIN projects' /\ projects'[i] = projects[i]]_vars

\* A project was created by user 2 with a body that names owner "1" and
\* neither status nor description, while another project existed
C10_Witness ==
    /\ IsResponse(out) /\ out.route = "POST /projects" /\ out.resp.success
    /\ out.body.ownerId = "1" /\ out.user.userId = 2
    /\ out.resp.data.ownerId = 2
    /\ Cardinality(DOMAIN projects) = 2

Emails(U) == {u.email : u \in U}
Ids(U)    == {u.id : u \in U}

RegisterRan(x) == x.route = "POST /auth/register" /\ x.stages[Len(x.stages)] = "register"
LoginRan(x)    == x.route = "POST /auth/login" /\ x.stages[Len(x.stages)] = "login"

\* C5: a Register with a body that passes registerSchema and an email no
\* user has is not refused by the validation, goes from its lookup on to
\* its insert, and its insert adds exactly one user, with that email, the
\* role "user", a fresh id and a password hash that is not the password;
\* the answer is 201, its token verifies to the new user's id and role, and
\* its user object has no passwordHash.
C5_Register ==
    [][
        /\ (Answers /\ RegisterRan(out') /\ out'.stmts = <<>>)
            => ~registerSchema(out'.body).ok
        /\ \A s \in Slots :
             (pend[s].op = "findByEmail" /\ pend'[s] # pend[s]
                  /\ pend[s].data.email \notin Emails(users))
                => pend'[s].op = "createUser" /\ out' = NoOut
        /\ \A s \in Slots :
             (pend[s].op = "createUser" /\ pend'[s] # pend[s]
                  /\ pend[s].data.email \notin Emails(users))
                => LET new == (users') \ users IN
                   /\ users \subseteq users' /\ Cardinality(new) = 1
                   /\ IsResponse(out') /\ out'.resp.success
                   /\ out'.resp.status = 201
                   /\ \A u \in new :
                         /\ u.email = out'.body.email /\ u.role = "user"
                         /\ u.name = out'.body.name /\ u.id \notin Ids(users)
                         /\ u.passwordHash # out'.body.password
                         /\ compare(out'.body.password, u.passwordHash)
                         /\ jwtVerify(out'.resp.data.token) =
                               [ok |-> TRUE,
                                payload |-> [userId |-> u.id, role |-> u.role]]
                         /\ out'.resp.data.user.id = u.id
                         /\ out'.resp.data.user.email = u.email
                         /\ out'.resp.data.user.role = "user"
                         /\ "passwordHash" \notin DOMAIN out'.resp.data.user]_vars

\* A Register whose body carried role "admin" was answered 201 with a user
\* of role "user"
C5_Witness ==
    /\ IsResponse(out) /\ RegisterRan(out) /\ out.resp.status = 201
    /\ out.body.role = "admin"
    /\ out.resp.data.user.role = "user"
    /\ \E u \in users : u.id = out.resp.data.user.id /\ u.role = "user"

\* C6 as stated: every Register request for an email that a user has is
\* answered CONFLICT (409) whatever its name and password are, and leaves
\* the users as they are.
C6_AsStated ==
    [][(Answers /\ RegisterRan(out')
               /\ out'.body.email \in Emails(users))
          => /\ HasCode(out'.resp, "CONFLICT", 409)
             /\ users' = users]_vars

\* C6, amended: every Register for an email that a user has, with a name
\* and a password that pass registerSchema, is answered CONFLICT (409)
\* whatever that name and that password are, and leaves the users as they
\* are (a name or password that fails the schema is answered
\* VALIDATION_ERROR before the lookup).
C6_DuplicateEmail ==
    [][(Answers /\ RegisterRan(out')
               /\ out'.body.email \in Emails(users)
               /\ registerSchema(out'.body).ok)
          => /\ HasCode(out'.resp, "CONFLICT", 409)
             /\ users' = users]_vars

\* A Register for the email of a stored user, with another name and another
\* password than the stored ones, was answered CONFLICT
C6_Witness ==
    /\ IsResponse(out) /\ RegisterRan(out)
    /\ HasCode(out.resp, "CONFLICT", 409)
    /\ \E u \in users :
          /\ u.email = out.body.email /\ u.name # out.body.name
          /\ ~compare(out.body.password, u.passwordHash)

\* The one answer of a failed login
InvalidEmailOrPassword ==
    [success |-> FALSE, status |-> 401, code |-> "UNAUTHORIZED",
     message |-> "Invalid email or password.", details |-> <<>>,
     data |-> NoData]

\* The login carries an e-mail address that no user has, or the address of
\* a user and another password than that user's
WrongCredentials(x) ==
    \/ emailIssues(x.body.email) = <<>> /\ x.body.email \notin Emails(users)
    \/ \E u \in users : /\ u.email = x.body.email
                         /\ ~compare(x.body.password, u.passwordHash)

\* C8 as stated: every Login with a known email and a wrong password and
\* every Login with an email no user has get the same answer: 401,
\* UNAUTHORIZED, one message text, no token.
C8_AsStated ==
    (IsResponse(out) /\ LoginRan(out) /\ WrongCredentials(out))
        => out.resp = InvalidEmailOrPassword

\* C8, amended: the same for every such Login whose password is not empty,
\* which is what loginSchema asks of it; a Login with an empty password is
\* answered VALIDATION_ERROR, whether or not its email is known.
C8_LoginFailuresAlike ==
    (IsResponse(out) /\ LoginRan(out) /\ WrongCredentials(out)
         /\ loginSchema(out.body).ok)
        => out.resp = InvalidEmailOrPassword

\* A Login with the email of a stored user and a wrong password was
\* answered as a Login with an unknown email is
C8_Witness ==
    /\ IsResponse(out) /\ LoginRan(out) /\ loginSchema(out.body).ok
    /\ out.body.email \in Emails(users)
    /\ out.resp = InvalidEmailOrPassword

\* C7: with Register requests overlapping in every order of their lookups
\* and inserts, a request that has done its lookup is answered 201, having
\* added the one user of its email, when no user had the email at the step
\* that answers it, and CONFLICT (409) without any change otherwise, be it
\* refused at its lookup or at the unique index; no email ever has two
\* users, and no such answer is INTERNAL_ERROR.
C7_RegisterRace ==
    [][(Answers /\ RegisterRan(out') /\ out'.stmts # <<>>)
          => /\ IF out'.body.email \in Emails(users)
                THEN HasCode(out'.resp, "CONFLICT", 409) /\ users' = users
                ELSE /\ out'.resp.success /\ out'.resp.status = 201
                     /\ users \subseteq users'
                     /\ Cardinality((users') \ users) = 1
             /\ Cardinality({u \in users' : u.email = out'.body.email}) = 1
             /\ out'.resp.code # "INTERNAL_ERROR"]_vars

\* Of two requests that both found the email unused, the second was
\* refused by the unique index with CONFLICT, and one user has the email
C7_Witness ==
    /\ IsResponse(out) /\ RegisterRan(out)
    /\ out.stmts = <<"findUnique", "create">>
    /\ HasCode(out.resp, "CONFLICT", 409)
    /\ Cardinality({u \in users : u.email = out.body.email}) = 1

\* The table P without the row of id
Without(P, id) == [i \in DOMAIN P \ {id} |-> P[i]]

\* C11: every DELETE /admin/projects/{id} that reaches its handler (the
\* caller is an admin) goes on to its delete statement when a project has
\* the id, whoever owns it, and is answered NOT_FOUND (404) without any
\* change when none has; the delete statement removes that project, answers
\* 200 and leaves every other project as it was.  The owner of the project
\* decides nothing.
C11_AdminDelete ==
    [][
        /\ (Answers /\ out'.route = "DELETE /admin/projects/:id"
               /\ Len(out'.stages) = 3)
            => IF out'.id \in DOMAIN projects
               THEN /\ out'.resp = sendSuccess(Deleted, 200)
                    /\ out'.stmts = <<"findUnique", "delete">>
                    /\ projects' = Without(projects, out'.id)
               ELSE /\ HasCode(out'.resp, "NOT_FOUND", 404)
                    /\ projects' = projects
        /\ \A s \in Slots :
             (pend[s].op = "adminDelete" /\ pend'[s] # pend[s]) => Answers
        ]_vars

\* An admin's delete of a project that another user owns has passed the
\* existence check and is at its delete statement, while a second project
\* exists
C11_Witness ==
    \E s \in Slots :
        /\ pend[s].op = "adminDelete"
        /\ pend[s].x.user.role = "admin"
        /\ pend[s].x.id \in DOMAIN projects
        /\ projects[pend[s].x.id].ownerId # pend[s].x.user.userId
        /\ Cardinality(DOMAIN projects) = 2

Min(a, b) == IF a <= b THEN a ELSE b
Max(a, b) == IF a >= b THEN a ELSE b

\* The rows of P that owner owns
OwnedBy(P, owner) == {r \in Rows(P) : r.ownerId = owner}

\* C12: every answered ListOwnedProjects whose two statements saw the table
\* projects returns limit and offset as the pagination schema gives them,
\* total = the number of the requester's projects in that table, and as
\* items min(limit, max(0, total - offset)) of the requester's projects and
\* none of another user's, the k-th item being the one with exactly
\* offset + k - 1 newer projects of the requester (newest first, offset
\* skipped).
C12_ListOwned ==
    [][(Answers /\ out'.route = "GET /projects" /\ out'.resp.success)
          => LET d   == out'.resp.data
                 own == OwnedBy(projects, out'.user.userId)
                 pg  == paginationSchema(out'.query)
             IN /\ d.limit = pg.limit.n /\ d.offset = pg.offset.n
                /\ d.total = Cardinality(own)
                /\ Len(d.items) = Min(d.limit, Max(0, d.total - d.offset))
                /\ \A k \in 1..Len(d.items) :
                      /\ d.items[k] \in own
                      /\ Cardinality({r \in own :
                               r.createdAt > d.items[k].createdAt})
                            = d.offset + k - 1]_vars

\* A list with limit=1 and offset=0 was answered with one item, the newer
\* of the requester's two projects, and total 2
C12_Witness ==
    /\ IsResponse(out) /\ out.route = "GET /projects" /\ out.resp.success
    /\ out.query = [limit |-> Param(<<"1">>), offset |-> Param(<<"0">>)]
    /\ Len(out.resp.data.items) = 1 /\ out.resp.data.total = 2
    /\ \A r \in OwnedBy(projects, out.user.userId) :
          r.createdAt <= out.resp.data.items[1].createdAt

\* C13 as stated: for every query the pagination schema accepts, the limit
\* it yields is an integer from 1 to 50, 10 when the parameter is absent,
\* and the offset an integer that is at least 0, 0 when the parameter is
\* absent.
C13_AsStated ==
    (out.kind = "pagination" /\ out.ok)
        => /\ ~out.value.limit.nan /\ out.value.limit.n \in 1..50
           /\ ~out.query.limit.given => out.value.limit.n = 10
           /\ ~out.value.offset.nan /\ out.value.offset.n >= 0
           /\ ~out.query.offset.given => out.value.offset.n = 0

\* The handlers that validate, by the stage they are
Validators == {"create", "update", "list", "listAllProjects", "register",
               "login"}

\* The handler of exchange x has read the body or query
Validates(x) == Len(x.stages) > 0 /\ x.stages[Len(x.stages)] \in Validators

\* A string value that is missing, or not a string, or shorter than min
Short(v, min) == v \in {Absent, Null} \/ Len(v) < min

\* An e-mail value that is missing or not of the form local@domain
NotAnEmail(e) == e.local \in {Absent, ""} \/ e.domain \in {Absent, ""}

\* The fields of the body or query of exchange x that violate what the
\* route asks of them
ViolatedFields(x) ==
    IF x.route \in {"POST /projects", "PATCH /projects/:id"}
    THEN {f \in {"title"} :
             /\ x.route = "PATCH /projects/:id" => x.body.title # Absent
             /\ Short(x.body.title, 3)}
         \cup {f \in {"description"} : x.body.description = Null}
         \cup {f \in {"status"} :
                  x.body.status \notin {Absent, "todo", "doing", "done"}}
    ELSE IF x.route = "POST /auth/register"
    THEN {f \in {"name"} : Short(x.body.name, 1)}
         \cup {f \in {"email"} : NotAnEmail(x.body.email)}
         \cup {f \in {"password"} : Short(x.body.password, 8)}
    ELSE IF x.route = "POST /auth/login"
    THEN {f \in {"email"} : NotAnEmail(x.body.email)}
         \cup {f \in {"password"} : Short(x.body.password, 1)}
    ELSE IF x.route \in {"GET /projects", "GET /admin/projects"}
    THEN {f \in {"limit", "offset"} : x.query[f].many}
    ELSE {}

NothingRead(x) == x.body = UnreadBody /\ x.query = UnreadQuery

\* C15 as stated: on the routes behind a bearer token the verdict of the
\* validator on body and query comes before the authentication check: no
\* request is answered before its body and query have been read, and one
\* that violates the schema is answered VALIDATION_ERROR, with a token that
\* verifies or without, and before any lookup.
C15_AsStated ==
    (IsResponse(out) /\ out.route \in {"POST /projects", "PATCH /projects/:id"})
        => /\ ~NothingRead(out)
           /\ ViolatedFields(out) # {}
                 => /\ HasCode(out.resp, "VALIDATION_ERROR", 400)
                    /\ out.stmts = <<>>

\* C15, amended: on the routes behind a bearer token the order is
\* authentication, then (on the admin routes) the role check, then the
\* validator, then the lookup with the existence and ownership checks: a
\* request without a token that verifies is answered UNAUTHORIZED with
\* neither body nor query read, whatever they are, so also when they are
\* malformed; a request that has passed the gate and violates the schema is
\* answered VALIDATION_ERROR before any statement; and a statement is sent
\* only for a request that passed both.
C15_PipelineOrder ==
    IsResponse(out)
        => /\ out.stages[1] = "authenticate"
           /\ ~BearerTokenVerifies(out.hdr)
                 => /\ HasCode(out.resp, "UNAUTHORIZED", 401)
                    /\ NothingRead(out) /\ out.stmts = <<>>
           /\ (out.route \in AdminRoutes /\ Len(out.stages) > 1)
                 => out.stages[2] = "requireAdmin"
           /\ ~Validates(out) => NothingRead(out)
           /\ (Validates(out) /\ ViolatedFields(out) # {})
                 => /\ HasCode(out.resp, "VALIDATION_ERROR", 400)
                    /\ out.stmts = <<>>
           /\ out.stmts # <<>>
                 => /\ BearerTokenVerifies(out.hdr)
                    /\ ViolatedFields(out) = {}

\* A PATCH with a token that verifies and a body that violates the schema,
\* for an id that no project has, was answered VALIDATION_ERROR and not
\* NOT_FOUND
C15_Witness ==
    /\ IsResponse(out) /\ out.route = "PATCH /projects/:id"
    /\ BearerTokenVerifies(out.hdr)
    /\ ViolatedFields(out) # {}
    /\ out.id \notin DOMAIN projects
    /\ HasCode(out.resp, "VALIDATION_ERROR", 400)

\* Exchange x was ended by the validator, by authenticate or by requireAdmin
EndedByValidatorOrGate(x) ==
    \/ HasCode(x.resp, "VALIDATION_ERROR", 400)
    \/ /\ x.stages[Len(x.stages)] = "authenticate"
       /\ HasCode(x.resp, "UNAUTHORIZED", 401)
    \/ /\ x.stages[Len(x.stages)] = "requireAdmin"
       /\ \/ HasCode(x.resp, "UNAUTHORIZED", 401)
          \/ HasCode(x.resp, "FORBIDDEN", 403)

\* C16: in every step that answers a request with VALIDATION_ERROR, or with
\* the UNAUTHORIZED of authenticate, or with the UNAUTHORIZED or FORBIDDEN
\* of requireAdmin, no statement has been sent to the store for the request
\* and the users, the projects and the next ids are what they were before
\* the step, which is the only step of the request.
C16_NoStoreAccess ==
    [][(Answers /\ EndedByValidatorOrGate(out'))
          => /\ out'.stmts = <<>>
             /\ \A s \in Slots : pend[s] = Idle
             /\ users' = users /\ projects' = projects
             /\ nextUserId' = nextUserId
             /\ nextProjectId' = nextProjectId]_vars

\* A user who is not an admin was refused by requireAdmin on
\* DELETE /admin/projects/:id without any statement, with two projects in
\* the store
C16_Witness ==
    /\ IsResponse(out) /\ out.route = "DELETE /admin/projects/:id"
    /\ out.stages = <<"authenticate", "requireAdmin">>
    /\ HasCode(out.resp, "FORBIDDEN", 403)
    /\ out.stmts = <<>>
    /\ Cardinality(DOMAIN projects) = 2

\* The one answer to a failure that is not expected
InternalError ==
    [success |-> FALSE, status |-> 500, code |-> "INTERNAL_ERROR",
     message |-> "An unexpected error occurred.", details |-> <<>>,
     data |-> NoData]

\* Exchange x, on the users U, met a failure that is neither a validation
\* error, nor an error of the application, nor a uniqueness or
\* record-missing error of the store: its body was not JSON; or its limit
\* or offset is no number, which the store client refuses; or its create
\* statement names an owner that is no user, which the foreign key refuses
UnexpectedFailure(x, U) ==
    \/ x.stages = <<"express.json">>
    \/ /\ x.route \in {"GET /projects", "GET /admin/projects"}
       /\ Validates(x) /\ ViolatedFields(x) = {}
       /\ \/ paginationSchema(x.query).limit.nan
          \/ paginationSchema(x.query).offset.nan
    \/ /\ x.route = "POST /projects" /\ x.stmts = <<"create">>
       /\ x.user.userId \notin Ids(U)

\* What the errors behind those failures say of themselves
ErrorTexts ==
    {JsonSyntaxError.name, JsonSyntaxError.message,
     PrismaValidationError.name, PrismaValidationError.message,
     PrismaError("P2003", "ownerId").name,
     PrismaError("P2003", "ownerId").message, "P2003", "ownerId"}

\* C17: every request that meets such a failure is answered 500 with the
\* code INTERNAL_ERROR, the one fixed message, no details and no data, and
\* nothing is stored; every answer with status 500 or code INTERNAL_ERROR
\* is that answer; and no answer carries the name, the message or the code
\* of the error.
C17_InternalError ==
    [][Answers
          => /\ UnexpectedFailure(out', users)
                   => /\ out'.resp = InternalError
                      /\ users' = users /\ projects' = projects
             /\ (out'.resp.status = 500 \/ out'.resp.code = "INTERNAL_ERROR")
                   => out'.resp = InternalError
             /\ ~out'.resp.success
                   => /\ out'.resp.message \notin ErrorTexts
                      /\ out'.resp.code \notin ErrorTexts]_vars

\* A POST /projects with the valid token of a user who has been removed
\* from the store was refused by the foreign key and answered 500
\* INTERNAL_ERROR
C17_Witness ==
    /\ IsResponse(out) /\ out.route = "POST /projects"
    /\ out.stmts = <<"create">>
    /\ out.user.userId \notin Ids(users)
    /\ out.resp = InternalError

\* The statement of exchange x is the update or delete that follows a
\* lookup
AfterLookup(x) ==
    x.stmts \in {<<"findUnique", "update">>, <<"findUnique", "delete">>}

\* C18: with requests overlapping in every order, every update or delete
\* statement that finds its project gone (removed by another request after
\* the lookup of its own had found it) is answered NOT_FOUND (404) with no
\* data and changes nothing: the answer is neither INTERNAL_ERROR nor a
\* success; a statement that finds its project succeeds.
C18_RecordMissing ==
    [][(Answers /\ AfterLookup(out'))
          => IF out'.id \in DOMAIN projects
             THEN out'.resp.success
             ELSE /\ HasCode(out'.resp, "NOT_FOUND", 404)
                  /\ out'.resp.data = NoData
                  /\ projects' = projects]_vars

\* A DELETE by the owner, whose lookup had found the project, was answered
\* NOT_FOUND by its delete statement, the project having been removed in
\* between
C18_Witness ==
    /\ IsResponse(out) /\ out.route = "DELETE /projects/:id"
    /\ out.stmts = <<"findUnique", "delete">>
    /\ out.id \notin DOMAIN projects
    /\ HasCode(out.resp, "NOT_FOUND", 404)
    /\ out.resp.message = "Record not found."

\* C19 as stated, for the two lists: with requests overlapping in every
\* order, every answered ListOwnedProjects and AdminListAllProjects returns
\* the items and the total of one store state, so that the number of items
\* is min(limit, max(0, total - offset)), as it is in every single state.
C19_AsStated ==
    (IsResponse(out) /\ out.route \in {"GET /projects", "GET /admin/projects"}
         /\ out.resp.success)
        => LET d == out.resp.data
           IN Len(d.items) = Min(d.limit, Max(0, d.total - d.offset))

\* C20: every GET /auth/me with a token that verifies passes authenticate
\* with the claim of the token, whether or not the store has the user; it
\* is answered 200 with id, name, email and role of the user whose id is
\* the subject of the token, and no passwordHash, when the store has that
\* user, and NOT_FOUND (404) when it has not.
C20_GetCurrentUser ==
    (IsResponse(out) /\ out.route = "GET /auth/me"
         /\ BearerTokenVerifies(out.hdr))
        => /\ out.stages = <<"authenticate", "me">>
           /\ out.user = [userId |-> out.hdr.token.userId,
                          role |-> out.hdr.token.role]
           /\ IF out.hdr.token.userId \in Ids(users)
              THEN /\ out.resp.success /\ out.resp.status = 200
                   /\ \E u \in users :
                         /\ u.id = out.hdr.token.userId
                         /\ out.resp.data = [id |-> u.id, name |-> u.name,
                                             email |-> u.email, role |-> u.role]
                   /\ "passwordHash" \notin DOMAIN out.resp.data
              ELSE /\ HasCode(out.resp, "NOT_FOUND", 404)
                   /\ out.resp.data = NoData

\* A GET /auth/me with the token of a user who has been removed from the
\* store passed authenticate and was answered NOT_FOUND
C20_Witness ==
    /\ IsResponse(out) /\ out.route = "GET /auth/me"
    /\ BearerTokenVerifies(out.hdr)
    /\ out.hdr.token.userId \notin Ids(users)
    /\ out.user.userId = out.hdr.token.userId
    /\ HasCode(out.resp, "NOT_FOUND", 404)

LimitedRoutes == {"POST /auth/register", "POST /auth/login"}

\* The exchange the step began or ended in slot 1
Exchange == IF out' # NoOut THEN out' ELSE pend'[1].x

\* The step takes a new request to a rate-limited route
LimitedArrival ==
    /\ out = NoOut /\ pend[1] = Idle
    /\ out' # NoOut \/ pend'[1] # Idle
    /\ Exchange.route \in LimitedRoutes

\* The step changes the limiter's entry of client k, or makes one
Counted(k) ==
    /\ k \in DOMAIN rateLimitStore'
    /\ k \notin DOMAIN rateLimitStore \/ rateLimitStore'[k] # rateLimitStore[k]

\* The window of client k is open: it has an entry whose reset time has
\* not passed
WindowOpen(k) ==
    k \in DOMAIN rateLimitStore /\ ~(now > rateLimitStore[k].resetTime)

\* The request of the step was passed on to register or login
PassedOn ==
    /\ Len(Exchange.stages) = 2
    /\ Exchange.stages[1] = "authRateLimit"
    /\ Exchange.stages[2] \in {"register", "login"}

\* The request of the step was answered 429 by the limiter: no body was
\* read, no statement was run or is awaited, the users are as they were
Refused ==
    /\ out' # NoOut /\ pend' = pend
    /\ HasCode(out'.resp, "RATE_LIMIT_EXCEEDED", 429)
    /\ out'.stages = <<"authRateLimit">>
    /\ out'.stmts = <<>>
    /\ out'.body \in {UnreadRegisterBody, UnreadLoginBody}
    /\ users' = users /\ nextUserId' = nextUserId

\* C21: every request to /auth/register or /auth/login is counted for one
\* client key and for no other; while that client's window is open (it has
\* an entry and the time is not past its resetTime) the request is passed
\* on to the handler when fewer than 20 requests were counted in the window
\* before it and is answered 429 RATE_LIMIT_EXCEEDED otherwise, without
\* reading the body, running a statement or changing the users; a request
\* that finds no open window opens one with count 1 that resets
\* authWindowMs later, and is passed on.
C21_RateLimit ==
    [][
        /\ LimitedArrival => \E k \in ClientKeys : Counted(k)
        /\ \A k \in ClientKeys :
             Counted(k) =>
               /\ LimitedArrival /\ Exchange.ip = k
               /\ \A j \in ClientKeys \ {k} : ~Counted(j)
               /\ IF WindowOpen(k)
                  THEN /\ rateLimitStore'[k] =
                            [count |-> rateLimitStore[k].count + 1,
                             resetTime |-> rateLimitStore[k].resetTime]
                       /\ IF rateLimitStore[k].count < 20
                          THEN PassedOn
                          ELSE Refused
                  ELSE /\ rateLimitStore'[k] =
                            [count |-> 1, resetTime |-> now + authWindowMs]
                       /\ PassedOn]_vars

\* In a window that opened after an earlier one had expired, the 21st
\* request of a client was answered 429 while the other client, with
\* fewer requests in its window, had just been passed on
C21_Witness ==
    /\ IsResponse(out) /\ HasCode(out.resp, "RATE_LIMIT_EXCEEDED", 429)
    /\ ClientKey \in DOMAIN rateLimitStore
    /\ rateLimitStore[ClientKey].count = 21
    /\ rateLimitStore[ClientKey].resetTime > authWindowMs
    /\ OtherKey \in DOMAIN rateLimitStore
    /\ rateLimitStore[OtherKey].count \in 1..20

\* The request of exchange x was refused by authenticate
RefusedByAuthenticate(x) ==
    IsResponse(x) /\ x.stages = <<"authenticate">> /\ ~x.resp.success

\* C22 as stated: a request to a bearer-protected route that authenticate
\* refuses is answered with the status, the code UNAUTHORIZED and the
\* message that the same request would be answered with under every other
\* header authenticate refuses (none, no Bearer prefix, an empty token, a
\* token signed with another key, an expired token).
C22_AsStated ==
    RefusedByAuthenticate(out)
        => \A hdr \in BadHeaders :
              LET other == authenticate(hdr).resp IN
              /\ HasCode(out.resp, "UNAUTHORIZED", 401)
              /\ other.status = out.resp.status
              /\ other.code = out.resp.code
              /\ other.message = out.resp.message

\* The ids of the projects that were created and have been deleted since:
\* the store has handed out the ids below nextProjectId, and a row leaves
\* the table in a delete statement only
DeletedIds == (1..(nextProjectId - 1)) \ DOMAIN projects

\* C23 as stated: once a project has been deleted, its id is never in the
\* table again, and every later GET, PATCH or DELETE /projects/{id} on it
\* with a valid token is answered NOT_FOUND (404).
C23_AsStated ==
    [][\A id \in DeletedIds :
          /\ id \notin DOMAIN projects'
          /\ (Answers /\ out'.route \in ByIdRoutes /\ out'.user # NoUser
                  /\ out'.id = id)
                => HasCode(out'.resp, "NOT_FOUND", 404)]_vars

\* C23, amended: the same for every GET and DELETE and for every PATCH
\* whose body passes updateProjectSchema (a PATCH whose body fails the
\* schema is answered VALIDATION_ERROR before any lookup, on a deleted id
\* as on any other).
C23_DeletedStaysDeleted ==
    [][\A id \in DeletedIds :
          /\ id \notin DOMAIN projects'
          /\ (Answers /\ out'.route \in ByIdRoutes /\ out'.user # NoUser
                  /\ out'.id = id /\ PatchBodyPasses(out'))
                => /\ HasCode(out'.resp, "NOT_FOUND", 404)
                   /\ out'.resp.data = NoData
                   /\ projects' = projects
          /\ (Answers /\ out'.route = "PATCH /projects/:id"
                  /\ out'.user # NoUser /\ out'.id = id
                  /\ ~PatchBodyPasses(out'))
                => HasCode(out'.resp, "VALIDATION_ERROR", 400)]_vars

\* Project 1 has been deleted and project 2, created by the other user, is
\* in the table; a PATCH on id 1 with a valid body by the owner of project 2
\* was answered NOT_FOUND
C23_Witness ==
    /\ IsResponse(out) /\ out.route = "PATCH /projects/:id"
    /\ out.id = 1 /\ 1 \in DeletedIds
    /\ 2 \in DOMAIN projects /\ projects[2].ownerId = out.user.userId
    /\ updateProjectSchema(out.body).ok
    /\ HasCode(out.resp, "NOT_FOUND", 404)

\* The exchange repeats the request answered just before it
IsRepeat(x) == IsResponse(x) /\ "first" \in DOMAIN x

\* Rows a and b agree on title, description, status and owner
SameFields(a, b) ==
    /\ a.title = b.title /\ a.description = b.description
    /\ a.status = b.status /\ a.ownerId = b.ownerId

\* C24: when a PATCH that was answered with success is sent again by the
\* same requester with the same body, with no other request in between,
\* the second call succeeds too, returns the title, description, status
\* and owner the first call returned, and the stored project has these
\* values, which are the values it had after the first call.
C24_Idempotent ==
    IsRepeat(out)
        => /\ out.resp.success /\ out.resp.status = 200
           /\ SameFields(out.resp.data, out.first)
           /\ out.resp.data.id = out.id /\ out.first.id = out.id
           /\ out.id \in DOMAIN projects
           /\ SameFields(projects[out.id], out.first)

\* A PATCH that changed the title and the status of a project was repeated
\* and answered with the values of the first answer
C24_Witness ==
    /\ IsRepeat(out) /\ out.resp.success
    /\ out.body.title = "T-2" /\ out.body.status = "doing"
    /\ out.body.description = Absent
    /\ out.first.title = "T-2" /\ out.first.status = "doing"
    /\ out.resp.data.title = "T-2" /\ out.resp.data.status = "doing"

\* The step runs the update statement of the PATCH in slot s
RunsUpdate(s) == pend[s].op = "update" /\ pend'[s] = Idle

\* C25: with PATCH requests of the owner overlapping on one project, every
\* update statement is answered 200, whatever the other request has
\* written since this one's lookup; it stores the value of each field its
\* body supplied and leaves the other fields as the statements before it
\* left them, and no other step changes a project.  So the value stored
\* for a field is the one of the statement that ran last among those that
\* supplied it; after the statement that ran last, the row has every value
\* that statement supplied and is the row its answer carries.
C25_LastWriteWins ==
    [][
        /\ \A s \in Slots :
             RunsUpdate(s) =>
               LET x      == pend[s].x
                   before == projects[x.id]
                   after  == projects'[x.id]
               IN /\ x.id \in DOMAIN projects
                  /\ out'.resp.success /\ out'.resp.status = 200
                  /\ out'.resp.data = after
                  /\ \A f \in PatchFields :
                        after[f] = IF x.body[f] = Absent THEN before[f]
                                   ELSE x.body[f]
                  /\ after.id = before.id /\ after.ownerId = before.ownerId
                  /\ \A i \in DOMAIN projects \ {x.id} :
                        projects'[i] = projects[i]
        /\ (\A s \in Slots : ~RunsUpdate(s))
             => \A i \in DOMAIN projects : projects'[i] = projects[i]
        /\ (IsResponse(out') /\ out'.route = "PATCH /projects/:id"
                /\ out'.resp.success)
             => \A f \in PatchFields :
                   out'.body[f] # Absent
                     => projects'[out'.id][f] = out'.body[f]]_vars

\* Two PATCH requests of the owner on one project have both passed the
\* lookup and the checks; the statement of one has run, has set the title
\* and was answered 200, while the other, which supplies another title,
\* still awaits its statement
C25_Witness ==
    /\ IsResponse(out) /\ out.route = "PATCH /projects/:id"
    /\ out.resp.success /\ out.body.title = "T-2"
    /\ projects[out.id].title = "T-2"
    /\ \E s \in Slots :
          /\ pend[s].op = "update" /\ pend[s].x.id = out.id
          /\ pend[s].x.body.title = "T-1"
          /\ pend[s].x.user = out.user

\* The entries a client can have left behind at time t: a window that
\* opened at some time, counted one request, as many as are passed on, or
\* more, and has expired
ExpiredEntries(t) ==
    [count : {1, authMaxRequests, MaxCount},
     resetTime : {r \in authWindowMs..MaxNow : t > r}]

\* The maps that rateLimitStore would be at time t if the callback had
\* never run: the entries of store, and for any of the other clients an
\* expired entry
Unswept(store, t) ==
    {store @@ old :
        old \in UNION {[A -> ExpiredEntries(t)] :
                          A \in SUBSET (ClientKeys \ DOMAIN store)}}

\* Map un is map sw with expired entries added
SweptFrom(sw, un, t) ==
    /\ DOMAIN sw \subseteq DOMAIN un
    /\ \A k \in DOMAIN un :
          IF k \in DOMAIN sw THEN un[k] = sw[k] ELSE t > un[k].resetTime

\* The limiter decides alike on maps sw and un for a request of client k,
\* and leaves maps that again differ by expired entries only
SameDecision(sw, un, k, t) ==
    LET a == rateLimit(sw, k, t, authWindowMs, authMaxRequests)
        b == rateLimit(un, k, t, authWindowMs, authMaxRequests)
    IN /\ a.next = b.next /\ a.resp = b.resp /\ a.headers = b.headers
       /\ a.store[k] = b.store[k]
       /\ SweptFrom(a.store, b.store, t)

\* C26: a run of the callback deletes entries only, and only entries with
\* now > resetTime, and changes nothing else; and in every state, for the
\* map as it is and every map it would be had the callback never run (the
\* same entries and the expired ones it deleted), a request of any client
\* gets the same decision, the same answer and headers and the same count,
\* and the two maps afterwards, and after a run of the callback, differ
\* again by expired entries only; a run of the callback on the map that was
\* never swept gives the map a run gives now.
C26_SweepPreserves ==
    [][
        /\ rateLimitStore' # rateLimitStore
              /\ DOMAIN rateLimitStore' \subseteq DOMAIN rateLimitStore
              /\ DOMAIN rateLimitStore' # DOMAIN rateLimitStore
           => /\ \A k \in DOMAIN rateLimitStore :
                    IF k \in DOMAIN rateLimitStore'
                    THEN rateLimitStore'[k] = rateLimitStore[k]
                    ELSE now > rateLimitStore[k].resetTime
              /\ UNCHANGED <<users, projects, nextUserId, nextProjectId, now,
                             pend, out>>
        /\ \A un \in Unswept(rateLimitStore, now) :
              /\ SweptFrom(rateLimitStore, un, now)
              /\ SweptFrom(sweep(rateLimitStore, now), un, now)
              /\ sweep(un, now) = sweep(rateLimitStore, now)
              /\ \A k \in ClientKeys :
                    SameDecision(rateLimitStore, un, k, now)]_vars

\* The callback has run after a window in which a Register was counted:
\* a user has registered, the window has expired and the map is empty
C26_Witness ==
    /\ rateLimitStore = <<>>
    /\ now > authWindowMs
    /\ Cardinality(users) > Cardinality(SeedUsers)
    /\ out = NoOut /\ pend[1] = Idle

\* The count of client k's open window, 0 when it has none
CountOf(store, k, t) ==
    IF k \in DOMAIN store /\ ~(t > store[k].resetTime)
    THEN store[k].count ELSE 0

\* C27: the map has one entry per client address, whatever the route.  A
\* request of client k to /auth/register or to /auth/login, whether it is
\* then answered 429, refused by the schema or by the service, or served,
\* raises the count of k's window by exactly one (from 0 when it opens a
\* window) and leaves the entries of the other clients alone; no other step
\* changes the count of an open window.  So the count is the number of
\* requests of the client to both routes since the window opened.  The
\* request is passed on only while that number is at most 20, and the
\* remaining quota it reports is 20 - count, or 0 when that is negative.
C27_SharedCount ==
    [][
        /\ DOMAIN rateLimitStore' \subseteq ClientKeys
        /\ IF LimitedArrival
           THEN LET k == Exchange.ip
                    h == Exchange.headers
                IN /\ k \in ClientKeys /\ k \in DOMAIN rateLimitStore'
                   /\ CountOf(rateLimitStore', k, now)
                         = CountOf(rateLimitStore, k, now) + 1
                   /\ \A j \in ClientKeys \ {k} :
                         CountOf(rateLimitStore', j, now)
                            = CountOf(rateLimitStore, j, now)
                   /\ h.limit = 20
                   /\ h.remaining = Max(0, 20 - rateLimitStore'[k].count)
                   /\ h.remaining >= 0
                   /\ PassedOn <=> rateLimitStore'[k].count <= 20
           ELSE \A k \in ClientKeys :
                   /\ CountOf(rateLimitStore', k, now')
                         \in {CountOf(rateLimitStore, k, now), 0}
                   /\ now' = now
                        => CountOf(rateLimitStore', k, now)
                              = CountOf(rateLimitStore, k, now)]_vars

\* In the first window one client has registered a user and then logged
\* in with a wrong password: its count is 2 and the login reported a
\* remaining quota of 18; the other client has sent nothing
C27_Witness ==
    /\ IsResponse(out) /\ out.route = "POST /auth/login"
    /\ HasCode(out.resp, "UNAUTHORIZED", 401)
    /\ now = 0 /\ DOMAIN rateLimitStore = {ClientKey}
    /\ rateLimitStore[ClientKey].count = 2
    /\ out.headers.remaining = 18
    /\ Cardinality(users) = Cardinality(SeedUsers) + 1

\* C28: no step changes the id or the ownerId of a project that stays in
\* the table; a project enters the table only in the create statement of a
\* POST /projects, with the id the store gives it and the subject of the
\* request's token as its owner, whatever the body names; and the data a
\* PATCH hands to its update statement has the keys title, description and
\* status and no other, also when the body carried an ownerId.  So every
\* project in the table is owned by the user whose token created it.
C28_OwnerFixed ==
    [][
        /\ \A id \in DOMAIN projects \cap DOMAIN projects' :
              /\ projects'[id].id = projects[id].id
              /\ projects'[id].ownerId = projects[id].ownerId
        /\ \A id \in DOMAIN projects' \ DOMAIN projects :
              /\ IsResponse(out') /\ out'.route = "POST /projects"
              /\ BearerTokenVerifies(out'.hdr)
              /\ projects'[id].id = id /\ id \notin DeletedIds
              /\ projects'[id].ownerId = out'.hdr.token.userId
        /\ \A s \in Slots :
              (pend'[s] # pend[s] /\ pend'[s].op = "update")
                 => /\ DOMAIN pend'[s].data = PatchFields
                    /\ \A f \in PatchFields :
                          pend'[s].data[f] = pend'[s].x.body[f]
        /\ \A id \in DOMAIN projects' : projects'[id].id = id]_vars

\* A PATCH of user 2 whose body named owner "1" was answered 200, and the
\* project is still user 2's
C28_Witness ==
    /\ IsResponse(out) /\ out.route = "PATCH /projects/:id"
    /\ out.body.ownerId = "1" /\ out.resp.success
    /\ out.user.userId = 2
    /\ projects[out.id].ownerId = 2 /\ out.resp.data.ownerId = 2

\* The exchange was answered with a token
IssuesToken(x) ==
    IsResponse(x) /\ x.resp.success /\ "token" \in DOMAIN x.resp.data

\* The body of the exchange carries the email and the password of a stored
\* user with the role "admin"
HoldsAdminAccount(x, U) ==
    \E u \in U : /\ u.role = "admin" /\ u.email = x.body.email
                 /\ compare(x.body.password, u.passwordHash)

\* C29: no step removes a user or changes the role of a stored user, and
\* every user a step adds has the role "user", also when the Register body
\* carried role "admin".  Only Register and Login answer with a token; the
\* token verifies, and its claim is the id and the stored role of the user
\* with the email of the body.  So a token that passes the admin role check
\* is issued only to a Login with the email and the password of a stored
\* admin: clients that hold accounts of role "user" only never get one.
C29_NoEscalation ==
    [][
        /\ \A u \in users :
              \E v \in users' : v.id = u.id /\ v.role = u.role
        /\ \A v \in users' \ users :
              /\ v.role = "user" /\ v.id \notin Ids(users)
              /\ IsResponse(out') /\ RegisterRan(out')
        /\ IssuesToken(out') =>
              LET t == jwtVerify(out'.resp.data.token) IN
              /\ RegisterRan(out') \/ LoginRan(out')
              /\ t.ok
              /\ \E u \in users' :
                    /\ u.email = out'.body.email
                    /\ t.payload = [userId |-> u.id, role |-> u.role]
                    /\ out'.resp.data.user.role = u.role
              /\ requireAdmin(t.payload).next
                    => LoginRan(out') /\ HoldsAdminAccount(out', users)
              /\ RegisterRan(out')
                    => t.payload.role = "user"
                          /\ ~requireAdmin(t.payload).next]_vars

\* A Register whose body carried role "admin" was answered with a token
\* that verifies, has the role "user" and does not pass the admin role
\* check
C29_Witness ==
    /\ IssuesToken(out) /\ RegisterRan(out)
    /\ out.body.role = "admin"
    /\ jwtVerify(out.resp.data.token).ok
    /\ jwtVerify(out.resp.data.token).payload.role = "user"
    /\ ~requireAdmin(jwtVerify(out.resp.data.token).payload).next
    /\ \E u \in users : u.email = out.body.email /\ u.role = "user"

\* The step answers a request with an admin's token on GET, PATCH or
\* DELETE /projects/{id} for a project that another user owns
AdminOnForeignProject ==
    /\ Answers /\ out'.route \in ByIdRoutes
    /\ out'.user.role = "admin"
    /\ out'.id \in DOMAIN projects
    /\ projects[out'.id].ownerId # out'.user.userId

\* Every successful GET /projects with an admin's token lists projects of
\* that admin only, and counts only those
AdminListsOwn ==
    (Answers /\ out'.route = "GET /projects" /\ out'.user.role = "admin"
        /\ out'.resp.success)
       => /\ \A k \in 1..Len(out'.resp.data.items) :
                out'.resp.data.items[k].ownerId = out'.user.userId
          /\ out'.resp.data.total
                = Cardinality(OwnedBy(projects, out'.user.userId))

\* No request with an admin's token on a /projects route changes or
\* removes a project of another user
AdminChangesOwnOnly ==
    (out'.kind = "response" /\ out'.user.role = "admin"
        /\ out'.route \notin AdminRoutes)
       => \A id \in DOMAIN projects :
             projects[id].ownerId # out'.user.userId
                => id \in DOMAIN projects' /\ projects'[id] = projects[id]

\* C30 as stated: every GET, PATCH or DELETE /projects/{id} with an admin's
\* token on a project of another user is answered FORBIDDEN (403) and
\* leaves the project as it is, and GET /projects with an admin's token
\* lists the admin's own projects only.
C30_AsStated ==
    [][
        /\ AdminOnForeignProject
              => /\ HasCode(out'.resp, "FORBIDDEN", 403)
                 /\ projects' = projects
        /\ AdminListsOwn
        /\ AdminChangesOwnOnly]_vars

\* C30, amended: the same for every GET and DELETE and for every PATCH whose
\* body passes updateProjectSchema; a PATCH whose body fails the schema is
\* answered VALIDATION_ERROR (400), and leaves the project as it is too.
C30_AdminNoPrivilege ==
    [][
        /\ AdminOnForeignProject
              => /\ IF PatchBodyPasses(out')
                    THEN /\ HasCode(out'.resp, "FORBIDDEN", 403)
                         /\ out'.resp.data = NoData
                    ELSE HasCode(out'.resp, "VALIDATION_ERROR", 400)
                 /\ projects' = projects
        /\ AdminListsOwn
        /\ AdminChangesOwnOnly]_vars

\* A DELETE /projects/{id} with the admin's token on a project of user 2
\* was answered FORBIDDEN, and the project is in the table
C30_Witness ==
    /\ IsResponse(out) /\ out.route = "DELETE /projects/:id"
    /\ out.user.role = "admin"
    /\ out.id \in DOMAIN projects /\ projects[out.id].ownerId = 2
    /\ HasCode(out.resp, "FORBIDDEN", 403)

====
